---- MODULE Spec2Model ----
(***************************************************************************)
(* Model of the SCSI mount manager (package scsi: mountManager, mount,     *)
(* mountConfig) of src/internal/guest/prot/protocol.go, lines 819-979.     *)
(*                                                                         *)
(* Callers are goroutines that call mountManager.mount and                 *)
(* mountManager.unmount.  A call is cut into steps at the places where the *)
(* goroutine can be suspended: acquiring mm.m, the mounter collaborator's  *)
(* calls, and the select on ctx.Done() / mount.waitCh.  Goroutines have no *)
(* identity in the code, so the calls in progress are kept as a bag.       *)
(*                                                                         *)
(* Go slices are 0-indexed; mm.mounts[i] is mounts[i + 1] here.            *)
(* A *mount pointer is the position of the object in heap; Nil is the nil  *)
(* pointer.                                                                *)
(***************************************************************************)
EXTENDS Integers, Sequences, FiniteSets, Bags, TLC

VARIABLES
    mounts,     \* mm.mounts: sequence of *mount, Nil for a freed slot
    heap,       \* the mount objects allocated so far
    mutex,      \* mm.m: TRUE while a caller holds it across a step
    calls,      \* the calls in progress: a bag of their positions and locals
    returned,   \* the call that returned in the last step, with its result
    hist,       \* per mount object: the calls made on it
    ncalls,     \* number of calls started so far
    ident,      \* package prot: a MessageIdentifier and what is derived from it
    wire,       \* package prot: a modify-settings message on its way
    bridge,     \* the bridge dispatcher: one connection
    schema      \* package prot: schema versions and how they compare

scsiVars == <<mounts, heap, mutex, calls, returned, hist, ncalls>>
protVars == <<ident, wire, bridge, schema>>
vars ==
    <<mounts, heap, mutex, calls, returned, hist, ncalls, ident, wire, bridge,
      schema>>

----------------------------------------------------------------------------
(* Bounds of the model.                                                    *)

NumCallers == 2
MaxCalls == 3
MaxFrames == 4

----------------------------------------------------------------------------
(* Values.                                                                 *)

Nil == 0
NoErr == "nil"
ErrConflict == "cannot mount over an existing mountpoint"
ErrMount == "mount scsi controller: mounter.mount failed"
ErrUnmount == "unmount scsi controller: mounter.unmount failed"
ErrCanceled == "context canceled"
Panic == "panic: nil pointer dereference"

(* A []string: Go tells a nil slice from an empty one.                     *)
NilSlice == [isNil |-> TRUE, elems |-> <<>>]
Slice(s) == [isNil |-> FALSE, elems |-> s]

(* mm.mountFmt, the argument of newMountManager, applied to an index.      *)
Itoa(i) ==
    CASE i = 0 -> "0" [] i = 1 -> "1" [] i = 2 -> "2" [] i = 3 -> "3"
      [] i = 4 -> "4" [] i = 5 -> "5" [] i = 6 -> "6" [] i = 7 -> "7"
      [] i = 8 -> "8" [] i = 9 -> "9"
mountFmt == "/mnt/scsi/"
Sprintf(index) == mountFmt \o Itoa(index)

(* type mountConfig.                                                       *)
MkConfig(readOnly, options) ==
    [partition |-> 0, readOnly |-> readOnly, encrypted |-> FALSE,
     blockDev |-> FALSE, options |-> options, ensureFilesystem |-> FALSE,
     filesystem |-> ""]

(* The arguments the callers draw from.  Devices and configs: one config   *)
(* given with its options in two orders, one given with no options both as *)
(* a nil slice and as an empty one, and a second device.  Paths: none, or  *)
(* GivenPath, which is also a path that mountFmt generates.                *)
CfgRoUnsorted == MkConfig(TRUE, Slice(<<"ro", "noatime">>))
CfgRoSorted == MkConfig(TRUE, Slice(<<"noatime", "ro">>))
CfgRw == MkConfig(FALSE, NilSlice)
CfgRwEmpty == MkConfig(FALSE, Slice(<<>>))
KeyInputs ==
    { [controller |-> 0, lun |-> 1, c |-> CfgRoUnsorted],
      [controller |-> 0, lun |-> 1, c |-> CfgRoSorted],
      [controller |-> 0, lun |-> 1, c |-> CfgRw],
      [controller |-> 0, lun |-> 1, c |-> CfgRwEmpty],
      [controller |-> 0, lun |-> 2, c |-> CfgRw] }
GivenPath == "/mnt/scsi/1"
MountInputs ==
    { [controller |-> k.controller, lun |-> k.lun, path |-> "", c |-> k.c] :
        k \in KeyInputs }
    \cup { [controller |-> 0, lun |-> 1, path |-> GivenPath, c |-> CfgRoSorted],
           [controller |-> 0, lun |-> 2, path |-> GivenPath, c |-> CfgRw] }
UnmountPaths == {"/mnt/scsi/0", "/mnt/scsi/1"}

----------------------------------------------------------------------------
(* uint arithmetic.  A uint value v is held as the integer r with          *)
(* v = r mod 2^64 and -2^63 < r < 2^63: r = -1 stands for 2^64 - 1.        *)
(* The model's counters stay far inside that range.                        *)

UintInc(r) == r + 1
UintDec(r) == r - 1
UintGtZero(r) == r # 0
UintWrapped(r) == r < 0

----------------------------------------------------------------------------
(* sort.Strings: ascending byte order of the option strings in use.        *)

StrRank(s) ==
    CASE s = "noatime" -> 1 [] s = "ro" -> 2 [] OTHER -> 3
StrLess(a, b) == StrRank(a) < StrRank(b)

RECURSIVE InsertSorted(_, _)
InsertSorted(x, s) ==
    IF s = <<>> THEN <<x>>
    ELSE IF StrLess(Head(s), x) \/ Head(s) = x
         THEN <<Head(s)>> \o InsertSorted(x, Tail(s))
         ELSE <<x>> \o s

RECURSIVE SortAsc(_)
SortAsc(s) == IF s = <<>> THEN <<>> ELSE InsertSorted(Head(s), SortAsc(Tail(s)))

SortStrings(sl) == [sl EXCEPT !.elems = SortAsc(sl.elems)]

(* reflect.DeepEqual on two *mountConfig: field by field; two slices are   *)
(* deeply equal when both are nil or both are non-nil with equal elements. *)
DeepEqual(c1, c2) ==
    /\ c1.partition = c2.partition
    /\ c1.readOnly = c2.readOnly
    /\ c1.encrypted = c2.encrypted
    /\ c1.blockDev = c2.blockDev
    /\ c1.options.isNil = c2.options.isNil
    /\ c1.options.elems = c2.options.elems
    /\ c1.ensureFilesystem = c2.ensureFilesystem
    /\ c1.filesystem = c2.filesystem

----------------------------------------------------------------------------
(* mountManager.trackMount, lines 932-974.                                 *)

(* The mount object of slot i (0-based), or Nil.                           *)
Slot(ms, i) == ms[i + 1]

(* The scan without the test of the path, lines 948-950.                   *)
RECURSIVE TrackScanNoPathCheck(_, _, _, _, _, _, _, _)
TrackScanNoPathCheck(ms, h, i, freeIndex, controller, lun, path, c) ==
    IF i >= Len(ms) THEN [kind |-> "new", freeIndex |-> freeIndex]
    ELSE IF Slot(ms, i) = Nil
         THEN TrackScanNoPathCheck(ms, h, i + 1,
                                   IF freeIndex = -1 THEN i ELSE freeIndex,
                                   controller, lun, path, c)
    ELSE IF /\ controller = h[Slot(ms, i)].controller
            /\ lun = h[Slot(ms, i)].lun
            /\ DeepEqual(c, h[Slot(ms, i)].config)
         THEN [kind |-> "existed", m |-> Slot(ms, i)]
    ELSE TrackScanNoPathCheck(ms, h, i + 1, freeIndex,
                              controller, lun, path, c)

(* The for loop of trackMount from slot i on, freeIndex being the first    *)
(* nil slot seen so far (-1 for none).  It ends in one of three ways.      *)
RECURSIVE TrackScan(_, _, _, _, _, _, _, _)
TrackScan(ms, h, i, freeIndex, controller, lun, path, c) ==
    IF i >= Len(ms) THEN [kind |-> "new", freeIndex |-> freeIndex]
    ELSE IF Slot(ms, i) = Nil
         THEN TrackScan(ms, h, i + 1, IF freeIndex = -1 THEN i ELSE freeIndex,
                        controller, lun, path, c)
    ELSE IF /\ controller = h[Slot(ms, i)].controller
            /\ lun = h[Slot(ms, i)].lun
            /\ DeepEqual(c, h[Slot(ms, i)].config)
         THEN [kind |-> "existed", m |-> Slot(ms, i)]
    ELSE IF path # "" /\ path = h[Slot(ms, i)].path
         THEN [kind |-> "conflict"]
    ELSE TrackScan(ms, h, i + 1, freeIndex, controller, lun, path, c)

(* The mount object trackMount builds for a new entry at index.            *)
NewMount(index, controller, lun, path, c) ==
    [path |-> IF path = "" THEN Sprintf(index) ELSE path,
     index |-> index,
     controller |-> controller,
     lun |-> lun,
     config |-> c,
     waitErr |-> NoErr,
     closed |-> FALSE,
     refCount |-> 1]

(* trackMount that never takes a freed slot: a new mount goes past the end.*)
trackMountAppend(ms, h, controller, lun, path, c) ==
    LET r == TrackScan(ms, h, 0, -1, controller, lun, path, c) IN
    CASE r.kind = "existed" ->
           [mounts |-> ms,
            heap |-> [h EXCEPT ![r.m].refCount = UintInc(@)],
            m |-> r.m, existed |-> TRUE, err |-> NoErr]
      [] r.kind = "conflict" ->
           [mounts |-> ms, heap |-> h,
            m |-> Nil, existed |-> FALSE, err |-> ErrConflict]
      [] r.kind = "new" ->
           [mounts |-> Append(ms, Len(h) + 1),
            heap |-> Append(h, NewMount(Len(ms), controller, lun, path, c)),
            m |-> Len(h) + 1, existed |-> FALSE, err |-> NoErr]

(* trackMount as a whole: the table and the heap after it, and what it     *)
(* returns (mount, existed, err).                                          *)
trackMount(ms, h, controller, lun, path, c) ==
    LET r == TrackScan(ms, h, 0, -1, controller, lun, path, c) IN
    CASE r.kind = "existed" ->
           [mounts |-> ms,
            heap |-> [h EXCEPT ![r.m].refCount = UintInc(@)],
            m |-> r.m, existed |-> TRUE, err |-> NoErr]
      [] r.kind = "conflict" ->
           [mounts |-> ms, heap |-> h,
            m |-> Nil, existed |-> FALSE, err |-> ErrConflict]
      [] r.kind = "new" ->
           LET index == IF r.freeIndex = -1 THEN Len(ms) ELSE r.freeIndex
               obj == NewMount(index, controller, lun, path, c)
           IN [mounts |-> IF r.freeIndex = -1
                          THEN Append(ms, Len(h) + 1)
                          ELSE [ms EXCEPT ![index + 1] = Len(h) + 1],
               heap |-> Append(h, obj),
               m |-> Len(h) + 1, existed |-> FALSE, err |-> NoErr]

(* untrackMount that leaves the slot as it is.                            *)
untrackMountKeep(ms, h, m) == ms

(* mountManager.untrackMount, lines 976-979.                               *)
untrackMount(ms, h, m) == [ms EXCEPT ![h[m].index + 1] = Nil]

(* The for loop of mountManager.unmount, lines 912-917, from slot i on:    *)
(* the range variable is left on the entry whose path matches, else on the *)
(* last element of mm.mounts, and is nil when mm.mounts is empty.          *)
RECURSIVE UnmountFind(_, _, _, _)
UnmountFind(ms, h, i, path) ==
    IF Len(ms) = 0 THEN Nil
    ELSE IF Slot(ms, i) # Nil /\ h[Slot(ms, i)].path = path THEN Slot(ms, i)
    ELSE IF i + 1 >= Len(ms) THEN Slot(ms, i)
    ELSE UnmountFind(ms, h, i + 1, path)

(* sort.Strings(c.options) of mountManager.mount, line 873.                *)
Normalize(c) == [c EXCEPT !.options = SortStrings(@)]

----------------------------------------------------------------------------
(* The state after newMountManager, with every caller outside any call.    *)

(* What a call returned: mount returns (path, err), unmount returns err.   *)
Ret(path, err) == [path |-> path, err |-> err]
NoRet == Ret("", "none")

(* The value of returned: in the step that led to this state a caller came *)
(* back through the return statement at this source line (the decrement of *)
(* line 919 for the panic) with ret; NoReturn when that step returned      *)
(* nothing.                                                                *)
Return(line, ret) == [line |-> line, ret |-> ret]
NoReturn == Return(0, NoRet)

(* A call in progress: where it is (pc), and the locals it still reads,    *)
(* the *mount and the named result err.                                    *)
Call(pc, m, err) == [pc |-> pc, m |-> m, err |-> err]
One(cr) == SetToBag({cr})

(* Per mount object: net is the number of mount calls that trackMount put  *)
(* on it minus the number of unmount calls on its path that found it;      *)
(* stray counts the unmount calls on another path that decremented it;     *)
(* pioneerRet is what the mount call that created it returned.             *)
NewHist == [net |-> 1, stray |-> 0, pioneerRet |-> NoRet]

newMountManager ==
    /\ mounts = <<>>
    /\ heap = <<>>
    /\ mutex = FALSE
    /\ calls = EmptyBag
    /\ returned = NoReturn
    /\ hist = <<>>
    /\ ncalls = 0

(* Package prot at rest: nothing of it is in use.                          *)
Unused == [phase |-> "unused"]
ProtUnused ==
    ident = Unused /\ wire = Unused /\ bridge = Unused /\ schema = Unused

Init == newMountManager /\ ProtUnused

InProgress == BagToSet(calls)

(* The pointers to mount objects: every mount call allocates at most one.  *)
Pointers == 1..MaxCalls

(* A nil pointer dereference ends the process.                             *)
Crashed == \E cr \in InProgress : cr.pc = "panicked"

(* A caller is free to make a call.                                        *)
CanStart ==
    /\ ~Crashed
    /\ BagCardinality(calls) < NumCallers
    /\ ncalls < MaxCalls

(* A mount object is garbage once no slot of mm.mounts and no caller's     *)
(* local variable points to it; what it held is then forgotten.            *)
Reachable(o, ms, cs) ==
    \/ \E i \in DOMAIN ms : ms[i] = o
    \/ \E cr \in BagToSet(cs) : cr.m = o

Garbage == [collected |-> TRUE]
Collect(ms, h, cs) ==
    [o \in DOMAIN h |-> IF Reachable(o, ms, cs) THEN h[o] ELSE Garbage]

----------------------------------------------------------------------------
(* mountManager.mount, lines 868-906.                                      *)

(* Lines 873-878 and the branch at 879: sort the options, trackMount under *)
(* mm.m; then return the error, or wait for the pioneer, or call           *)
(* mm.mounter.mount as the pioneer.                                        *)
MountCall(controller, lun, path, cIn) ==
    /\ CanStart
    /\ ~mutex
    /\ LET c == Normalize(cIn)
           r == trackMount(mounts, heap, controller, lun, path, c)
       IN /\ mounts' = r.mounts
          /\ heap' = r.heap
          /\ hist' = IF r.err # NoErr THEN hist
                     ELSE IF r.existed
                          THEN [hist EXCEPT ![r.m].net = @ + 1]
                          ELSE Append(hist, NewHist)
          /\ calls' = IF r.err # NoErr THEN calls
                      ELSE IF r.existed
                           THEN calls (+) One(Call("await", r.m, NoErr))
                           ELSE calls (+) One(Call("mounting", r.m, NoErr))
          /\ returned' = IF r.err # NoErr
                         THEN Return(877, Ret("", r.err))
                         ELSE NoReturn
    /\ ncalls' = ncalls + 1
    /\ UNCHANGED mutex
    /\ UNCHANGED protVars

(* Lines 880-888, case <-mount.waitCh: the channel is closed.              *)
AwaitReady(m) ==
    LET cr == Call("await", m, NoErr) IN
       /\ ~Crashed
       /\ BagIn(cr, calls)
       /\ heap[cr.m].closed
       /\ calls' = calls (-) One(cr)
       /\ returned' = IF heap[cr.m].waitErr # NoErr
                      THEN Return(885, Ret("", heap[cr.m].waitErr))
                      ELSE Return(888, Ret(heap[cr.m].path, NoErr))
       /\ heap' = Collect(mounts, heap, calls')
       /\ hist' = Collect(mounts, hist, calls')
       /\ UNCHANGED <<mounts, mutex, ncalls>>
       /\ UNCHANGED protVars

(* Lines 880-882, case <-ctx.Done(): the caller's context is cancelled.    *)
AwaitCancel(m) ==
    LET cr == Call("await", m, NoErr) IN
       /\ ~Crashed
       /\ BagIn(cr, calls)
       /\ calls' = calls (-) One(cr)
       /\ returned' = Return(882, Ret("", ErrCanceled))
       /\ heap' = Collect(mounts, heap, calls')
       /\ hist' = Collect(mounts, hist, calls')
       /\ UNCHANGED <<mounts, mutex, ncalls>>
       /\ UNCHANGED protVars

(* Lines 902-905 and 891-900 without an error: mm.mounter.mount returns    *)
(* nil to the pioneer; the deferred function stores nil in mount.waitErr   *)
(* and closes mount.waitCh; the pioneer returns mount.path.                *)
MountSucceeds(m) ==
    LET cr == Call("mounting", m, NoErr) IN
       /\ ~Crashed
       /\ BagIn(cr, calls)
       /\ calls' = calls (-) One(cr)
       /\ LET ret == Ret(heap[cr.m].path, NoErr)
          IN /\ returned' = Return(905, ret)
             /\ heap' = Collect(mounts, [heap EXCEPT ![cr.m].waitErr = NoErr,
                                                     ![cr.m].closed = TRUE],
                                calls')
             /\ hist' = Collect(mounts, [hist EXCEPT ![cr.m].pioneerRet = ret],
                                calls')
       /\ UNCHANGED <<mounts, mutex, ncalls>>
       /\ UNCHANGED protVars

(* The failure path of the pioneer with the deferred untrackMount done     *)
(* without taking mm.m.                                                    *)
MountFailsUnlocked(m) ==
    LET cr == Call("mounting", m, NoErr) IN
       /\ ~Crashed
       /\ BagIn(cr, calls)
       /\ mounts' = untrackMount(mounts, heap, cr.m)
       /\ calls' = (calls (-) One(cr)) (+) One(Call("close", cr.m, ErrMount))
       /\ heap' = Collect(mounts', [heap EXCEPT ![cr.m].waitErr = ErrMount],
                          calls')
       /\ hist' = Collect(mounts', hist, calls')
       /\ returned' = NoReturn
       /\ UNCHANGED <<mutex, ncalls>>
       /\ UNCHANGED protVars

(* The failure path of the pioneer with the deferred function not storing  *)
(* the error in mount.waitErr.                                             *)
MountFailsNoStore(m) ==
    LET cr == Call("mounting", m, NoErr) IN
       /\ ~Crashed
       /\ BagIn(cr, calls)
       /\ ~mutex
       /\ mounts' = untrackMount(mounts, heap, cr.m)
       /\ calls' = (calls (-) One(cr)) (+) One(Call("close", cr.m, ErrMount))
       /\ heap' = Collect(mounts', heap, calls')
       /\ hist' = Collect(mounts', hist, calls')
       /\ returned' = NoReturn
       /\ UNCHANGED <<mutex, ncalls>>
       /\ UNCHANGED protVars

(* Lines 902-903 and 892-898 with an error: mm.mounter.mount returns an    *)
(* error, which becomes the named result err; the deferred function        *)
(* untracks the mount under mm.m, then stores err in mount.waitErr, which  *)
(* nobody reads before the close.                                          *)
MountFails(m) ==
    LET cr == Call("mounting", m, NoErr) IN
       /\ ~Crashed
       /\ BagIn(cr, calls)
       /\ ~mutex
       /\ mounts' = untrackMount(mounts, heap, cr.m)
       /\ calls' = (calls (-) One(cr)) (+) One(Call("close", cr.m, ErrMount))
       /\ heap' = Collect(mounts', [heap EXCEPT ![cr.m].waitErr = ErrMount],
                          calls')
       /\ hist' = Collect(mounts', hist, calls')
       /\ returned' = NoReturn
       /\ UNCHANGED <<mutex, ncalls>>
       /\ UNCHANGED protVars

(* Line 899 of the deferred function after an error, close(mount.waitCh),  *)
(* and the return of the pioneer, line 903.                                *)
DeferClose(m) ==
    LET cr == Call("close", m, ErrMount) IN
       /\ ~Crashed
       /\ BagIn(cr, calls)
       /\ calls' = calls (-) One(cr)
       /\ LET ret == Ret("", cr.err)
          IN /\ returned' = Return(903, ret)
             /\ heap' = Collect(mounts, [heap EXCEPT ![cr.m].closed = TRUE],
                                calls')
             /\ hist' = Collect(mounts, [hist EXCEPT ![cr.m].pioneerRet = ret],
                                calls')
       /\ UNCHANGED <<mounts, mutex, ncalls>>
       /\ UNCHANGED protVars

----------------------------------------------------------------------------
(* mountManager.unmount, lines 908-930.                                    *)

(* Lines 909-924: lock, find the mount, decrement; return nil while the    *)
(* count is above zero, else call mm.mounter.unmount with mm.m held.       *)
UnmountCall(path) ==
    /\ CanStart
    /\ ~mutex
    /\ ncalls' = ncalls + 1
    /\ LET mount == UnmountFind(mounts, heap, 0, path) IN
       IF mount = Nil
       THEN /\ calls' = calls (+) One(Call("panicked", Nil, NoErr))
            /\ returned' = Return(919, Ret("", Panic))
            /\ UNCHANGED <<mounts, heap, mutex, hist>>
       ELSE LET rc == UintDec(heap[mount].refCount) IN
            /\ heap' = [heap EXCEPT ![mount].refCount = rc]
            /\ hist' = IF heap[mount].path = path
                       THEN [hist EXCEPT ![mount].net = @ - 1]
                       ELSE [hist EXCEPT ![mount].stray = @ + 1]
            /\ UNCHANGED mounts
            /\ IF UintGtZero(rc)
               THEN /\ calls' = calls
                    /\ returned' = Return(921, Ret("", NoErr))
                    /\ mutex' = mutex
               ELSE /\ calls' = calls (+) One(Call("unmounting", mount, NoErr))
                    /\ returned' = NoReturn
                    /\ mutex' = TRUE
    /\ UNCHANGED protVars

(* Lines 924-929: mm.mounter.unmount returns; on an error the error is     *)
(* returned, else the mount is untracked; the deferred Unlock runs.        *)
MounterUnmountReturn(m, ok) ==
    LET cr == Call("unmounting", m, NoErr) IN
       /\ ~Crashed
       /\ BagIn(cr, calls)
       /\ mutex
       /\ mounts' = IF ok THEN untrackMount(mounts, heap, cr.m) ELSE mounts
       /\ calls' = calls (-) One(cr)
       /\ returned' = IF ok THEN Return(929, Ret("", NoErr))
                      ELSE Return(925, Ret("", ErrUnmount))
       /\ mutex' = FALSE
       /\ heap' = Collect(mounts', heap, calls')
       /\ hist' = Collect(mounts', hist, calls')
       /\ UNCHANGED ncalls
       /\ UNCHANGED protVars

----------------------------------------------------------------------------

Next ==
    \/ \E a \in MountInputs : MountCall(a.controller, a.lun, a.path, a.c)
    \/ \E path \in UnmountPaths : UnmountCall(path)
    \/ \E m \in Pointers :
        \/ AwaitReady(m)
        \/ AwaitCancel(m)
        \/ MountSucceeds(m)
        \/ MountFails(m)
        \/ DeferClose(m)
        \/ \E ok \in BOOLEAN : MounterUnmountReturn(m, ok)

Spec == Init /\ [][Next]_vars

----------------------------------------------------------------------------
(* Package prot, lines 20-218: message identifiers.                        *)
(*                                                                         *)
(* A uint32 is the sequence of its eight hexadecimal digits, the most      *)
(* significant first: 0x10100a01 is <<1, 0, 1, 0, 0, 10, 0, 1>>.           *)

Bit(a, k) == (a \div (2 ^ k)) % 2
NibAnd(a, b) ==
    Bit(a, 0) * Bit(b, 0) + 2 * Bit(a, 1) * Bit(b, 1)
    + 4 * Bit(a, 2) * Bit(b, 2) + 8 * Bit(a, 3) * Bit(b, 3)

(* The operators &, | and ^ (unary) of Go on uint32.                       *)
And32(x, y) == [i \in 1..8 |-> NibAnd(x[i], y[i])]
Or32(x, y) == [i \in 1..8 |-> x[i] + y[i] - NibAnd(x[i], y[i])]
Not32(x) == [i \in 1..8 |-> 15 - x[i]]

messageTypeMask == <<15, 0, 0, 0, 0, 0, 0, 0>>
messageCategoryMask == <<0, 15, 15, 0, 0, 0, 0, 0>>
messageIDMask == <<0, 0, 0, 15, 15, 15, 0, 0>>
messageVersionMask == <<0, 0, 0, 0, 0, 0, 15, 15>>

MtNone == <<0, 0, 0, 0, 0, 0, 0, 0>>
MtRequest == <<1, 0, 0, 0, 0, 0, 0, 0>>
MtResponse == <<2, 0, 0, 0, 0, 0, 0, 0>>
MtNotification == <<3, 0, 0, 0, 0, 0, 0, 0>>
McComputeSystem == <<0, 0, 1, 0, 0, 0, 0, 0>>

(* Response identifiers built without clearing the type bits first.        *)
GetResponseIdentifierNoMask(identifier) == Or32(MtResponse, identifier)

(* func GetResponseIdentifier, lines 72-74.                                *)
GetResponseIdentifier(identifier) ==
    Or32(MtResponse, And32(identifier, Not32(messageTypeMask)))

MiNone == <<0, 0, 0, 0, 0, 0, 0, 0>>
ComputeSystemCreateV1 == <<1, 0, 1, 0, 0, 1, 0, 1>>
ComputeSystemStartV1 == <<1, 0, 1, 0, 0, 2, 0, 1>>
ComputeSystemShutdownGracefulV1 == <<1, 0, 1, 0, 0, 3, 0, 1>>
ComputeSystemShutdownForcedV1 == <<1, 0, 1, 0, 0, 4, 0, 1>>
ComputeSystemExecuteProcessV1 == <<1, 0, 1, 0, 0, 5, 0, 1>>
ComputeSystemWaitForProcessV1 == <<1, 0, 1, 0, 0, 6, 0, 1>>
ComputeSystemSignalProcessV1 == <<1, 0, 1, 0, 0, 7, 0, 1>>
ComputeSystemResizeConsoleV1 == <<1, 0, 1, 0, 0, 8, 0, 1>>
ComputeSystemGetPropertiesV1 == <<1, 0, 1, 0, 0, 9, 0, 1>>
ComputeSystemModifySettingsV1 == <<1, 0, 1, 0, 0, 10, 0, 1>>
ComputeSystemNegotiateProtocolV1 == <<1, 0, 1, 0, 0, 11, 0, 1>>
(* The dump stack request under the message id of the negotiation.         *)
ComputeSystemDumpStacksV1Clash == <<1, 0, 1, 0, 0, 11, 0, 1>>

ComputeSystemDumpStacksV1 == <<1, 0, 1, 0, 0, 12, 0, 1>>
ComputeSystemDeleteContainerStateV1 == <<1, 0, 1, 0, 0, 13, 0, 1>>
ComputeSystemResponseCreateV1 == <<2, 0, 1, 0, 0, 1, 0, 1>>
ComputeSystemResponseStartV1 == <<2, 0, 1, 0, 0, 2, 0, 1>>
ComputeSystemResponseShutdownGracefulV1 == <<2, 0, 1, 0, 0, 3, 0, 1>>
ComputeSystemResponseShutdownForcedV1 == <<2, 0, 1, 0, 0, 4, 0, 1>>
ComputeSystemResponseExecuteProcessV1 == <<2, 0, 1, 0, 0, 5, 0, 1>>
ComputeSystemResponseWaitForProcessV1 == <<2, 0, 1, 0, 0, 6, 0, 1>>
ComputeSystemResponseSignalProcessV1 == <<2, 0, 1, 0, 0, 7, 0, 1>>
ComputeSystemResponseResizeConsoleV1 == <<2, 0, 1, 0, 0, 8, 0, 1>>
ComputeSystemResponseGetPropertiesV1 == <<2, 0, 1, 0, 0, 9, 0, 1>>
ComputeSystemResponseModifySettingsV1 == <<2, 0, 1, 0, 0, 10, 0, 1>>
ComputeSystemResponseNegotiateProtocolV1 == <<2, 0, 1, 0, 0, 11, 0, 1>>
ComputeSystemResponseDumpStacksV1 == <<2, 0, 1, 0, 0, 12, 0, 1>>
ComputeSystemNotificationV1 == <<3, 0, 1, 0, 0, 1, 0, 1>>

(* strconv.FormatUint(v, 10): the decimal digits of a uint32, computed on  *)
(* digit sequences (least significant first) so that no intermediate value *)
(* leaves the range of the integers at hand.                               *)
RECURSIVE DecMulAdd(_, _, _)
DecMulAdd(d, k, carry) ==
    IF d = <<>>
    THEN IF carry = 0 THEN <<>>
         ELSE <<carry % 10>> \o DecMulAdd(<<>>, k, carry \div 10)
    ELSE LET v == Head(d) * k + carry
         IN <<v % 10>> \o DecMulAdd(Tail(d), k, v \div 10)

RECURSIVE DecDigits(_, _)
DecDigits(x, i) ==
    IF i = 0 THEN <<>> ELSE DecMulAdd(DecDigits(x, i - 1), 16, x[i])

RECURSIVE DigitsToString(_)
DigitsToString(d) ==
    IF d = <<>> THEN "" ELSE DigitsToString(Tail(d)) \o Itoa(Head(d))

FormatUint(x) ==
    IF DecDigits(x, 8) = <<>> THEN "0" ELSE DigitsToString(DecDigits(x, 8))

(* String with the cases of the response identifiers left out.             *)
StringRequestsOnly(mi) ==
    CASE mi = MiNone -> "None"
      [] mi = ComputeSystemCreateV1 -> "ComputeSystemCreateV1"
      [] mi = ComputeSystemStartV1 -> "ComputeSystemStartV1"
      [] mi = ComputeSystemShutdownGracefulV1 -> "ComputeSystemShutdownGracefulV1"
      [] mi = ComputeSystemShutdownForcedV1 -> "ComputeSystemShutdownForcedV1"
      [] mi = ComputeSystemExecuteProcessV1 -> "ComputeSystemExecuteProcessV1"
      [] mi = ComputeSystemWaitForProcessV1 -> "ComputeSystemWaitForProcessV1"
      [] mi = ComputeSystemSignalProcessV1 -> "ComputeSystemSignalProcessV1"
      [] mi = ComputeSystemResizeConsoleV1 -> "ComputeSystemResizeConsoleV1"
      [] mi = ComputeSystemGetPropertiesV1 -> "ComputeSystemGetPropertiesV1"
      [] mi = ComputeSystemModifySettingsV1 -> "ComputeSystemModifySettingsV1"
      [] mi = ComputeSystemNegotiateProtocolV1 -> "ComputeSystemNegotiateProtocolV1"
      [] mi = ComputeSystemDumpStacksV1 -> "ComputeSystemDumpStacksV1"
      [] mi = ComputeSystemDeleteContainerStateV1 -> "ComputeSystemDeleteContainerStateV1"
      [] mi = ComputeSystemNotificationV1 -> "ComputeSystemNotificationV1"
      [] OTHER -> FormatUint(mi)

(* func (mi MessageIdentifier) String, lines 146-205.                      *)
String(mi) ==
    CASE mi = MiNone -> "None"
      [] mi = ComputeSystemCreateV1 -> "ComputeSystemCreateV1"
      [] mi = ComputeSystemStartV1 -> "ComputeSystemStartV1"
      [] mi = ComputeSystemShutdownGracefulV1 -> "ComputeSystemShutdownGracefulV1"
      [] mi = ComputeSystemShutdownForcedV1 -> "ComputeSystemShutdownForcedV1"
      [] mi = ComputeSystemExecuteProcessV1 -> "ComputeSystemExecuteProcessV1"
      [] mi = ComputeSystemWaitForProcessV1 -> "ComputeSystemWaitForProcessV1"
      [] mi = ComputeSystemSignalProcessV1 -> "ComputeSystemSignalProcessV1"
      [] mi = ComputeSystemResizeConsoleV1 -> "ComputeSystemResizeConsoleV1"
      [] mi = ComputeSystemGetPropertiesV1 -> "ComputeSystemGetPropertiesV1"
      [] mi = ComputeSystemModifySettingsV1 -> "ComputeSystemModifySettingsV1"
      [] mi = ComputeSystemNegotiateProtocolV1 -> "ComputeSystemNegotiateProtocolV1"
      [] mi = ComputeSystemDumpStacksV1 -> "ComputeSystemDumpStacksV1"
      [] mi = ComputeSystemDeleteContainerStateV1 -> "ComputeSystemDeleteContainerStateV1"
      [] mi = ComputeSystemResponseCreateV1 -> "ComputeSystemResponseCreateV1"
      [] mi = ComputeSystemResponseStartV1 -> "ComputeSystemResponseStartV1"
      [] mi = ComputeSystemResponseShutdownGracefulV1 -> "ComputeSystemResponseShutdownGracefulV1"
      [] mi = ComputeSystemResponseShutdownForcedV1 -> "ComputeSystemResponseShutdownForcedV1"
      [] mi = ComputeSystemResponseExecuteProcessV1 -> "ComputeSystemResponseExecuteProcessV1"
      [] mi = ComputeSystemResponseWaitForProcessV1 -> "ComputeSystemResponseWaitForProcessV1"
      [] mi = ComputeSystemResponseSignalProcessV1 -> "ComputeSystemResponseSignalProcessV1"
      [] mi = ComputeSystemResponseResizeConsoleV1 -> "ComputeSystemResponseResizeConsoleV1"
      [] mi = ComputeSystemResponseGetPropertiesV1 -> "ComputeSystemResponseGetPropertiesV1"
      [] mi = ComputeSystemResponseModifySettingsV1 -> "ComputeSystemResponseModifySettingsV1"
      [] mi = ComputeSystemResponseNegotiateProtocolV1 -> "ComputeSystemResponseNegotiateProtocolV1"
      [] mi = ComputeSystemResponseDumpStacksV1 -> "ComputeSystemResponseDumpStacksV1"
      [] mi = ComputeSystemNotificationV1 -> "ComputeSystemNotificationV1"
      [] OTHER -> FormatUint(mi)

(* The identifiers the functions are applied to: every type nibble, three  *)
(* categories, the message ids 0x000 to 0x00e and 0xfff, three versions.   *)
Identifiers ==
    LET TypeNibbles == 0..15
        Categories == {<<0, 0>>, <<0, 1>>, <<15, 15>>}
        MessageIDs == {<<0, 0, k>> : k \in 0..14} \cup {<<15, 15, 15>>}
        Versions == {<<0, 0>>, <<0, 1>>, <<15, 15>>}
    IN {<<t>> \o c \o i \o v :
           t \in TypeNibbles, c \in Categories, i \in MessageIDs,
           v \in Versions}

(* A caller holds an identifier, takes its response identifier, and has    *)
(* the response identifier rendered.                                       *)
IdentInit ==
    /\ newMountManager
    /\ wire = Unused
    /\ bridge = Unused
    /\ schema = Unused
    /\ ident \in {[phase |-> "given", mi |-> mi] : mi \in Identifiers}

CallGetResponseIdentifier ==
    /\ ident.phase = "given"
    /\ ident' = [phase |-> "response", mi |-> ident.mi,
                 resp |-> GetResponseIdentifier(ident.mi)]
    /\ UNCHANGED <<scsiVars, wire, bridge, schema>>

CallString ==
    /\ ident.phase = "response"
    /\ ident' = [phase |-> "rendered", mi |-> ident.mi, resp |-> ident.resp,
                 name |-> String(ident.resp)]
    /\ UNCHANGED <<scsiVars, wire, bridge, schema>>

IdentNext == CallGetResponseIdentifier \/ CallString

IdentSpec == IdentInit /\ [][IdentNext]_vars

----------------------------------------------------------------------------
(* Package prot, lines 484-602: modify-settings messages and               *)
(* UnmarshalContainerModifySettings.                                       *)
(*                                                                         *)
(* A payload is held as the JSON value its bytes spell, or Malformed when  *)
(* they spell none.  Absent stands for a field that is not in its object   *)
(* and for a json.RawMessage that was never filled.                        *)

Absent == [j |-> "absent"]
Malformed == [j |-> "malformed"]
JNull == [j |-> "null"]
JString(str) == [j |-> "string", s |-> str]
JNumber(n) == [j |-> "number", n |-> n]
JObject(fields) == [j |-> "object", f |-> fields]
(* The JSON object that spells a settings record of the given Go type.     *)
JRecord(type, val) == [j |-> "object", type |-> type, val |-> val]

(* type RequestType, lines 485-494.                                        *)
RtAdd == "Add"
RtRemove == "Remove"
RtUpdate == "Update"

(* The resource types of package guestresource that the switch of lines    *)
(* 536-599 names are held as strings by their names without the prefix     *)
(* ResourceType, and the records it decodes into as strings by the names   *)
(* of their types.                                                         *)
NoRecord == "none"
ZeroValue == [zero |-> TRUE]
SomeValue == [zero |-> FALSE]

(* The message and its parts, lines 303-314 and 498-509.  request.Request  *)
(* is an interface{}: nil, the *json.RawMessage of line 519, or the        *)
(* decoded request of line 600.                                            *)
NilMessage == [nil |-> TRUE]
NilSpan == [nil |-> TRUE]
NilSettings == [nil |-> TRUE]
NilInterface == [kind |-> "nil"]
RawPointer(raw) == [kind |-> "raw", raw |-> raw]
Request(resourceType, requestType, settings) ==
    [kind |-> "request", ResourceType |-> resourceType,
     RequestType |-> requestType, Settings |-> settings]
Message(containerID, activityID, span, request) ==
    [ContainerID |-> containerID, ActivityID |-> activityID,
     OpenCensusSpanContext |-> span, Request |-> request]

ErrEnvelope == "failed to unmarshal ContainerModifySettings"
ErrRequest == "failed to unmarshal request.Settings as ModifySettingRequest"
ErrSettings == "failed to unmarshal settings"
ErrInvalidResourceType == "invalid ResourceType"

(* json.Unmarshal into a string field: an absent field and null leave the  *)
(* zero value, a JSON string is stored, anything else is a type error.     *)
IntoString(v) ==
    CASE v.j \in {"absent", "null"} -> [ok |-> TRUE, val |-> ""]
      [] v.j = "string" -> [ok |-> TRUE, val |-> v.s]
      [] OTHER -> [ok |-> FALSE, val |-> ""]

(* json.Unmarshal into the *ocspancontext of line 313.                     *)
IntoSpan(v) ==
    CASE v.j \in {"absent", "null"} -> [ok |-> TRUE, val |-> NilSpan]
      [] v.j = "object" ->
           [ok |-> IntoString(v.f.TraceID).ok,
            val |-> [nil |-> FALSE, TraceID |-> IntoString(v.f.TraceID).val]]
      [] OTHER -> [ok |-> FALSE, val |-> NilSpan]

(* Lines 517-522: the envelope.  Request goes into requestRawSettings      *)
(* through the pointer of line 519; a null Request sets the interface to   *)
(* nil and leaves requestRawSettings empty.                                *)
UnmarshalEnvelope(b) ==
    CASE b.j = "malformed" -> [ok |-> FALSE]
      [] b.j = "null" ->
           [ok |-> TRUE, raw |-> Absent,
            request |-> Message("", "", NilSpan, RawPointer(Absent))]
      [] b.j = "object" ->
           LET c == IntoString(b.f.ContainerId)
               a == IntoString(b.f.ActivityId)
               o == IntoSpan(b.f.ocsc)
               raw == IF b.f.Request.j = "null" THEN Absent ELSE b.f.Request
           IN [ok |-> c.ok /\ a.ok /\ o.ok, raw |-> raw,
               request |-> Message(c.val, a.val, o.val,
                                   IF b.f.Request.j = "null"
                                   THEN NilInterface
                                   ELSE RawPointer(raw))]
      [] OTHER -> [ok |-> FALSE]

(* Lines 524-529: requestRawSettings into msr, with Settings going into    *)
(* msrRawSettings.                                                         *)
UnmarshalRequest(raw) ==
    CASE raw.j = "object" ->
           LET t == IntoString(raw.f.ResourceType)
               q == IntoString(raw.f.RequestType)
           IN [ok |-> t.ok /\ q.ok, ResourceType |-> t.val,
               RequestType |-> q.val,
               rawSettings |-> IF raw.f.Settings.j = "null"
                               THEN Absent ELSE raw.f.Settings]
      [] OTHER -> [ok |-> FALSE]

(* The request type is left as the payload has it.                         *)
DefaultRequestTypeNever(requestType) == requestType

(* The request type is Add whatever the payload has.                       *)
DefaultRequestTypeAlways(requestType) == RtAdd

(* Lines 531-533.                                                          *)
DefaultRequestType(requestType) ==
    IF requestType = "" THEN RtAdd ELSE requestType

(* The switch with the record of one case taken from its neighbour.        *)
SettingsRecordSlip(resourceType) ==
    CASE resourceType = "SCSIDevice" -> "guestresource.SCSIDevice"
      [] resourceType = "MappedVirtualDisk" -> "guestresource.LCOWMappedVirtualDisk"
      [] resourceType = "MappedDirectory" -> "guestresource.LCOWMappedVirtualDisk"
      [] resourceType = "VPMemDevice" -> "guestresource.LCOWMappedVPMemDevice"
      [] resourceType = "CombinedLayers" -> "guestresource.LCOWCombinedLayers"
      [] resourceType = "Network" -> "guestresource.LCOWNetworkAdapter"
      [] resourceType = "VPCIDevice" -> "guestresource.LCOWMappedVPCIDevice"
      [] resourceType = "ContainerConstraints" -> "guestresource.LCOWContainerConstraints"
      [] resourceType = "SecurityPolicy" -> "guestresource.LCOWConfidentialOptions"
      [] resourceType = "PolicyFragment" -> "guestresource.LCOWSecurityPolicyFragment"
      [] OTHER -> NoRecord

(* The switch of lines 536-599: the record each resource type selects.     *)
SettingsRecord(resourceType) ==
    CASE resourceType = "SCSIDevice" -> "guestresource.SCSIDevice"
      [] resourceType = "MappedVirtualDisk" -> "guestresource.LCOWMappedVirtualDisk"
      [] resourceType = "MappedDirectory" -> "guestresource.LCOWMappedDirectory"
      [] resourceType = "VPMemDevice" -> "guestresource.LCOWMappedVPMemDevice"
      [] resourceType = "CombinedLayers" -> "guestresource.LCOWCombinedLayers"
      [] resourceType = "Network" -> "guestresource.LCOWNetworkAdapter"
      [] resourceType = "VPCIDevice" -> "guestresource.LCOWMappedVPCIDevice"
      [] resourceType = "ContainerConstraints" -> "guestresource.LCOWContainerConstraints"
      [] resourceType = "SecurityPolicy" -> "guestresource.LCOWConfidentialOptions"
      [] resourceType = "PolicyFragment" -> "guestresource.LCOWSecurityPolicyFragment"
      [] OTHER -> NoRecord

(* json.Unmarshal of msrRawSettings into a record of the given type: the   *)
(* fields of the record that the object spells are stored, the others keep *)
(* their zero value; an empty RawMessage and a value that is no object     *)
(* fail.                                                                   *)
UnmarshalSettings(raw, type) ==
    CASE raw.j = "object" ->
           [ok |-> TRUE,
            settings |-> [nil |-> FALSE, type |-> type,
                          val |-> IF raw.type = type THEN raw.val
                                  ELSE ZeroValue]]
      [] OTHER -> [ok |-> FALSE]

(* The decoder returning a nil message with every error.                   *)
UnmarshalNilOnError(b) ==
    LET env == UnmarshalEnvelope(b) IN
    IF ~env.ok \/ ~UnmarshalRequest(env.raw).ok
    THEN [msg |-> NilMessage, err |-> ErrEnvelope]
    ELSE LET msr == UnmarshalRequest(env.raw)
             type == SettingsRecord(msr.ResourceType)
         IN IF type = NoRecord \/ ~UnmarshalSettings(msr.rawSettings, type).ok
            THEN [msg |-> NilMessage, err |-> ErrSettings]
            ELSE [msg |-> [env.request EXCEPT !.Request =
                              Request(msr.ResourceType,
                                      DefaultRequestType(msr.RequestType),
                                      UnmarshalSettings(msr.rawSettings,
                                                        type).settings)],
                  err |-> NoErr]

(* func UnmarshalContainerModifySettings, lines 515-602: what it returns.  *)
UnmarshalContainerModifySettings(b) ==
    LET env == UnmarshalEnvelope(b) IN
    IF ~env.ok THEN [msg |-> NilMessage, err |-> ErrEnvelope]
    ELSE LET msr == UnmarshalRequest(env.raw) IN
         IF ~msr.ok THEN [msg |-> env.request, err |-> ErrRequest]
         ELSE LET requestType == DefaultRequestType(msr.RequestType)
                  type == SettingsRecord(msr.ResourceType)
              IN IF type = NoRecord
                 THEN [msg |-> env.request, err |-> ErrInvalidResourceType]
                 ELSE LET d == UnmarshalSettings(msr.rawSettings, type) IN
                      IF ~d.ok THEN [msg |-> env.request, err |-> ErrSettings]
                      ELSE [msg |-> [env.request EXCEPT !.Request =
                                        Request(msr.ResourceType, requestType,
                                                d.settings)],
                            err |-> NoErr]

(* json.Marshal of a message whose Request is a                            *)
(* ResourceModificationRequestResponse, by the field tags of lines 303-314 *)
(* and 498-502: omitempty leaves out an empty RequestType, nil Settings    *)
(* and a nil span.                                                         *)
Marshal(msg) ==
    LET span == msg.OpenCensusSpanContext
        rq == msg.Request
    IN JObject(
        [ContainerId |-> JString(msg.ContainerID),
         ActivityId |-> JString(msg.ActivityID),
         ocsc |-> IF span = NilSpan THEN Absent
                  ELSE JObject([TraceID |-> IF span.TraceID = "" THEN Absent
                                            ELSE JString(span.TraceID)]),
         Request |->
            JObject([ResourceType |-> JString(rq.ResourceType),
                     RequestType |-> IF rq.RequestType = "" THEN Absent
                                     ELSE JString(rq.RequestType),
                     Settings |-> IF rq.Settings = NilSettings THEN Absent
                                  ELSE JRecord(rq.Settings.type,
                                               rq.Settings.val)])])

(* The payloads a host may send.                                           *)
ResourceTypes ==
    {"SCSIDevice", "MappedVirtualDisk",
     "MappedDirectory", "VPMemDevice",
     "CombinedLayers", "Network",
     "VPCIDevice", "ContainerConstraints",
     "SecurityPolicy", "PolicyFragment"}
RequestTypes == {RtAdd, RtRemove, RtUpdate}
RecordTypes == {SettingsRecord(t) : t \in ResourceTypes}
Payloads ==
    LET JResourceTypes ==
            {JString(t) : t \in ResourceTypes \cup {"", "Memory", "scsidevice"}}
            \cup {Absent, JNumber(1)}
        JRequestTypes ==
            {JString(q) : q \in RequestTypes \cup {"", "Bogus"}}
            \cup {Absent, JNull, JNumber(1)}
        JSettings ==
            {JRecord(type, SomeValue) : type \in RecordTypes}
            \cup {Absent, JNull, JString("x")}
        JRequests ==
            {JObject([ResourceType |-> t, RequestType |-> q, Settings |-> st]) :
                t \in JResourceTypes, q \in JRequestTypes, st \in JSettings}
            \cup {Absent, JNull, JString("x")}
    IN {JObject([ContainerId |-> c, ActivityId |-> JString("a1"),
                 ocsc |-> o, Request |-> rq]) :
           c \in {JString("c1"), Absent, JNumber(5)},
           o \in {Absent, JObject([TraceID |-> JString("t")])},
           rq \in JRequests}
       \cup {Malformed, JNull, JString("x")}

(* The messages a sender may encode.                                       *)
Messages ==
    {Message(c, "a1", o, Request(t, q, st)) :
        c \in {"c1", ""},
        o \in {NilSpan, [nil |-> FALSE, TraceID |-> "t"],
               [nil |-> FALSE, TraceID |-> ""]},
        t \in ResourceTypes \cup {"Memory"},
        q \in RequestTypes \cup {""},
        st \in {[nil |-> FALSE, type |-> type, val |-> v] :
                   type \in RecordTypes, v \in {ZeroValue, SomeValue}}
               \cup {NilSettings}}

(* A message is encoded and its bytes decoded, or a host's payload is      *)
(* decoded.                                                                *)
NoMessage == [none |-> TRUE]
WireInit ==
    /\ newMountManager
    /\ ident = Unused
    /\ bridge = Unused
    /\ schema = Unused
    /\ wire \in {[phase |-> "message", msg |-> msg] : msg \in Messages}
          \cup {[phase |-> "payload", msg |-> NoMessage, b |-> b] :
                   b \in Payloads}

CallMarshal ==
    /\ wire.phase = "message"
    /\ wire' = [phase |-> "payload", msg |-> wire.msg, b |-> Marshal(wire.msg)]
    /\ UNCHANGED <<scsiVars, ident, bridge, schema>>

CallUnmarshalContainerModifySettings ==
    /\ wire.phase = "payload"
    /\ wire' = [phase |-> "decoded", msg |-> wire.msg, b |-> wire.b,
                result |-> UnmarshalContainerModifySettings(wire.b)]
    /\ UNCHANGED <<scsiVars, ident, bridge, schema>>

WireNext == CallMarshal \/ CallUnmarshalContainerModifySettings

WireSpec == WireInit /\ [][WireNext]_vars

----------------------------------------------------------------------------
(* The bridge dispatcher, one connection: the read loop, the workers it    *)
(* hands requests to and the frames written to the host.  It follows the   *)
(* specification of the dispatcher (its state machine, its contract per    *)
(* request, its concurrency and cancellation rules); of package prot it    *)
(* uses the identifiers, GetResponseIdentifier, the MessageHeader (lines   *)
(* 211-215), the protocol versions (lines 228-230) and                     *)
(* InfiniteWaitTimeout (line 436).                                         *)
(*                                                                         *)
(* bridge.state     the state of the connection                            *)
(* bridge.version   the negotiated protocol version, PvInvalid before      *)
(* bridge.received  the requests read so far, each with the state it was   *)
(*                  read in and what the dispatcher decided                *)
(* bridge.inflight  the sequence ids of the requests a worker runs         *)
(* bridge.out       the frames written to the host: a bag; a notification  *)
(*                  records how many requests had been read before it      *)
(* bridge.exited    the processes that have exited                         *)
(* bridge.elapsed   the waits whose TimeoutInMs has elapsed                 *)
(* bridge.dropped   the requests whose worker was cancelled and could      *)
(*                  not respond                                            *)

PvInvalid == 0
PvV4 == 4

(* A timeout of one second taken for no timeout.                           *)
InfiniteWaitTimeoutOneSecond == <<0, 0, 0, 0, 0, 3, 14, 8>>

InfiniteWaitTimeout == <<15, 15, 15, 15, 15, 15, 15, 15>>

RequestIdentifiers ==
    {ComputeSystemCreateV1, ComputeSystemStartV1,
     ComputeSystemShutdownGracefulV1, ComputeSystemShutdownForcedV1,
     ComputeSystemExecuteProcessV1, ComputeSystemWaitForProcessV1,
     ComputeSystemSignalProcessV1, ComputeSystemResizeConsoleV1,
     ComputeSystemGetPropertiesV1, ComputeSystemModifySettingsV1,
     ComputeSystemNegotiateProtocolV1, ComputeSystemDumpStacksV1,
     ComputeSystemDeleteContainerStateV1}

(* The frames a host may send, without their sequence id: ok tells whether *)
(* the payload decodes.  A TimeoutInMs is 0xffffffff or 0x000003e8, one    *)
(* second, and 0x10100e01 is an identifier no handler is registered for.   *)
HostRequests ==
    {[id |-> ComputeSystemNegotiateProtocolV1, ok |-> TRUE,
      MinimumVersion |-> r[1], MaximumVersion |-> r[2]] :
        r \in {<<1, 3>>, <<3, 5>>, <<5, 6>>}}
    \cup {[id |-> ComputeSystemWaitForProcessV1, ok |-> TRUE,
           ProcessID |-> 1, TimeoutInMs |-> t] :
             t \in {<<15, 15, 15, 15, 15, 15, 15, 15>>,
                    <<0, 0, 0, 0, 0, 3, 14, 8>>}}
    \cup {[id |-> i, ok |-> TRUE] :
             i \in {ComputeSystemCreateV1, ComputeSystemModifySettingsV1,
                    ComputeSystemShutdownGracefulV1,
                    <<1, 0, 1, 0, 0, 14, 0, 1>>}}
    \cup {[id |-> i, ok |-> FALSE] :
             i \in {ComputeSystemWaitForProcessV1,
                    ComputeSystemModifySettingsV1}}

(* A response that does not carry the sequence id of its request.          *)
ResponseNoSequenceID(rq, result) ==
    [type |-> "response", Type |-> GetResponseIdentifier(rq.msg.id),
     ID |-> 0, Result |-> result]

(* The header and result of the response to a request: the response        *)
(* identifier of the request's identifier and the request's sequence id.   *)
Response(rq, result) ==
    [type |-> "response", Type |-> GetResponseIdentifier(rq.msg.id),
     ID |-> rq.seq, Result |-> result]

(* A dispatcher that takes every request in every state.                   *)
DispatchAnyState(state, msg) ==
    CASE msg.id \notin RequestIdentifiers -> "InvalidMessageType"
      [] ~msg.ok -> "InvalidPayload"
      [] msg.id = ComputeSystemNegotiateProtocolV1 -> "Negotiate"
      [] OTHER -> "Handler"

(* What the dispatcher does with a frame read in a state.                  *)
Dispatch(state, msg) ==
    CASE state = "Uninit" /\ msg.id # ComputeSystemNegotiateProtocolV1
           -> "ProtocolViolation"
      [] msg.id \notin RequestIdentifiers -> "InvalidMessageType"
      [] state = "Negotiated"
         /\ msg.id \notin {ComputeSystemCreateV1, ComputeSystemDumpStacksV1,
                           ComputeSystemDeleteContainerStateV1}
           -> "ProtocolViolation"
      [] ~msg.ok -> "InvalidPayload"
      [] msg.id = ComputeSystemNegotiateProtocolV1 -> "Negotiate"
      [] OTHER -> "Handler"

(* A guest that answers with the highest version of the host's range.      *)
NegotiationHighestOfRange(min, max) ==
    [Result |-> "Success", Version |-> max]

(* The version the guest answers a NegotiateProtocol with.                 *)
Negotiation(min, max) ==
    IF min <= PvV4 /\ PvV4 <= max
    THEN [Result |-> "Success", Version |-> PvV4]
    ELSE [Result |-> "ProtocolNotSupported", Version |-> PvInvalid]

(* The frames of the connection, requests read and notifications written,  *)
(* are fewer than the bound of the model.                                  *)
FramesLeft ==
    Cardinality(bridge.received)
    + Cardinality({f \in BagToSet(bridge.out) : f.type = "notification"})
        < MaxFrames

RequestOf(seq) == CHOOSE rq \in bridge.received : rq.seq = seq

BridgeInit ==
    /\ newMountManager
    /\ ident = Unused
    /\ wire = Unused
    /\ schema = Unused
    /\ bridge = [state |-> "Uninit", version |-> PvInvalid, received |-> {},
                 inflight |-> {}, out |-> EmptyBag, exited |-> {},
                 elapsed |-> {}, dropped |-> {}]

(* The reader reads one frame and dispatches it: a wrong message for the   *)
(* state is answered with ProtocolViolation and closes the connection, an  *)
(* unknown identifier and a payload that does not decode are answered      *)
(* without closing, NegotiateProtocol is answered by the reader, and any   *)
(* other request is handed to a worker of its own.                         *)
ReadFrame(msg) ==
    /\ bridge.state \in {"Uninit", "Negotiated", "Active"}
    /\ FramesLeft
    /\ LET verdict == Dispatch(bridge.state, msg)
           rq == [seq |-> Cardinality(bridge.received) + 1,
                  at |-> bridge.state, verdict |-> verdict, msg |-> msg]
           n == Negotiation(msg.MinimumVersion, msg.MaximumVersion)
           read == [bridge EXCEPT !.received = @ \cup {rq}]
       IN bridge' =
            CASE verdict = "ProtocolViolation" ->
                   [read EXCEPT
                      !.out = @ (+) One(Response(rq, verdict)),
                      !.state = IF bridge.inflight = {} THEN "Closed"
                                ELSE "Closing"]
              [] verdict \in {"InvalidMessageType", "InvalidPayload"} ->
                   [read EXCEPT !.out = @ (+) One(Response(rq, verdict))]
              [] verdict = "Negotiate" ->
                   [read EXCEPT
                      !.out = @ (+) One([type |-> "response",
                                         Type |-> GetResponseIdentifier(msg.id),
                                         ID |-> rq.seq, Result |-> n.Result,
                                         Version |-> n.Version]),
                      !.version = IF @ = PvInvalid THEN n.Version ELSE @,
                      !.state = IF @ = "Uninit" /\ n.Result = "Success"
                                THEN "Negotiated" ELSE @]
              [] verdict = "Handler" ->
                   [read EXCEPT
                      !.inflight = @ \cup {rq.seq},
                      !.state =
                         CASE @ = "Negotiated"
                              /\ msg.id = ComputeSystemCreateV1 -> "Active"
                           [] @ = "Active"
                              /\ msg.id \in {ComputeSystemShutdownGracefulV1,
                                             ComputeSystemShutdownForcedV1}
                                -> "Draining"
                           [] OTHER -> @]
    /\ UNCHANGED <<scsiVars, ident, wire, schema>>

(* The handler of a request other than WaitForProcess completes and its    *)
(* worker writes the response.                                             *)
WorkerCompletes(seq) ==
    /\ bridge.state \notin {"Closing", "Closed"}
    /\ seq \in bridge.inflight
    /\ RequestOf(seq).msg.id # ComputeSystemWaitForProcessV1
    /\ bridge' = [bridge EXCEPT
                    !.inflight = @ \ {seq},
                    !.out = @ (+) One(Response(RequestOf(seq), "Success"))]
    /\ UNCHANGED <<scsiVars, ident, wire, schema>>

(* A process of the container exits.                                       *)
ProcessExits(pid) ==
    /\ bridge.state \in {"Active", "Draining"}
    /\ pid \notin bridge.exited
    /\ bridge' = [bridge EXCEPT !.exited = @ \cup {pid}]
    /\ UNCHANGED <<scsiVars, ident, wire, schema>>

(* The worker of a WaitForProcess finds the process exited and writes the  *)
(* response.                                                               *)
WaitReturns(seq) ==
    /\ bridge.state \notin {"Closing", "Closed"}
    /\ seq \in bridge.inflight
    /\ RequestOf(seq).msg.id = ComputeSystemWaitForProcessV1
    /\ RequestOf(seq).msg.ProcessID \in bridge.exited
    /\ bridge' = [bridge EXCEPT
                    !.inflight = @ \ {seq},
                    !.out = @ (+) One(Response(RequestOf(seq), "Success"))]
    /\ UNCHANGED <<scsiVars, ident, wire, schema>>

(* TimeoutInMs of a WaitForProcess elapses, unless it is                   *)
(* InfiniteWaitTimeout, and the worker writes a Timeout response.          *)
TimeoutElapses(seq) ==
    /\ bridge.state \notin {"Closing", "Closed"}
    /\ seq \in bridge.inflight
    /\ RequestOf(seq).msg.id = ComputeSystemWaitForProcessV1
    /\ RequestOf(seq).msg.TimeoutInMs # InfiniteWaitTimeout
    /\ bridge' = [bridge EXCEPT
                    !.inflight = @ \ {seq},
                    !.elapsed = @ \cup {seq},
                    !.out = @ (+) One(Response(RequestOf(seq), "Timeout"))]
    /\ UNCHANGED <<scsiVars, ident, wire, schema>>

(* A callback of the container runtime publishes a notification, under a   *)
(* sequence id the guest assigns afresh.                                   *)
PublishNotification ==
    /\ bridge.state \in {"Active", "Draining"}
    /\ FramesLeft
    /\ LET notifications ==
               {f \in BagToSet(bridge.out) : f.type = "notification"}
           used == {rq.seq : rq \in bridge.received}
                   \cup {f.ID : f \in notifications}
           fresh == CHOOSE k \in 1..(Cardinality(used) + 1) : k \notin used
       IN bridge' = [bridge EXCEPT
                          !.out = @ (+) One([type |-> "notification",
                                            Type |-> ComputeSystemNotificationV1,
                                            ID |-> fresh,
                                            after |-> Cardinality(
                                                        bridge.received)])]
    /\ UNCHANGED <<scsiVars, ident, wire, schema>>

(* The connection is torn down: the transport fails, the deadline of       *)
(* draining passes, or a protocol violation has closed it.  Every worker   *)
(* in flight is signalled, observes the cancellation and writes a          *)
(* Cancelled response where that is possible: the workers in responding    *)
(* do, the others cannot.                                                  *)
Teardown(responding) ==
    /\ bridge.state # "Closed"
    /\ responding \subseteq bridge.inflight
    /\ bridge' = [bridge EXCEPT
                    !.state = "Closed",
                    !.inflight = {},
                    !.out = @ (+) SetToBag({Response(RequestOf(seq), "Cancelled") :
                                               seq \in responding}),
                    !.dropped = @ \cup (bridge.inflight \ responding)]
    /\ UNCHANGED <<scsiVars, ident, wire, schema>>

(* No worker is left while draining: the transport is released.            *)
Released ==
    /\ bridge.state = "Draining"
    /\ bridge.inflight = {}
    /\ bridge' = [bridge EXCEPT !.state = "Closed"]
    /\ UNCHANGED <<scsiVars, ident, wire, schema>>

BridgeNext ==
    \/ \E msg \in HostRequests : ReadFrame(msg)
    \/ \E seq \in 1..MaxFrames :
        \/ WorkerCompletes(seq)
        \/ WaitReturns(seq)
        \/ TimeoutElapses(seq)
    \/ ProcessExits(1)
    \/ PublishNotification
    \/ \E responding \in SUBSET (1..MaxFrames) : Teardown(responding)
    \/ Released

BridgeSpec == BridgeInit /\ [][BridgeNext]_vars

----------------------------------------------------------------------------
(* Package prot, lines 716-739: SchemaVersion and its Cmp.                 *)
(*                                                                         *)
(* Major and Minor are uint32.  Cmp only tests them for equality and for   *)
(* order, which on uint32 are those of the natural numbers; it does no     *)
(* arithmetic on them, so they are held as naturals.                       *)

SchemaVersion(major, minor) == [Major |-> major, Minor |-> minor]

(* Cmp with the Minor fields left out of the comparison.                   *)
CmpMajorOnly(s, v) ==
    IF s.Major = v.Major THEN 0
    ELSE IF s.Major < v.Major THEN -1
    ELSE 1

(* func (s *SchemaVersion) Cmp(v SchemaVersion) int, lines 727-739.        *)
Cmp(s, v) ==
    IF s.Major = v.Major
    THEN IF s.Minor = v.Minor THEN 0
         ELSE IF s.Minor < v.Minor THEN -1
         ELSE 1
    ELSE IF s.Major < v.Major THEN -1
    ELSE 1

(* The versions compared: fields from zero to the largest value the model  *)
(* holds, so that equal, lower and higher fields meet in every pairing.    *)
SchemaVersions ==
    LET Fields == {0, 1, 2, 2147483647}
    IN {SchemaVersion(major, minor) : major \in Fields, minor \in Fields}

(* Three versions are given; each is then compared with the others.        *)
SchemaInit ==
    /\ newMountManager
    /\ ident = Unused
    /\ wire = Unused
    /\ bridge = Unused
    /\ schema \in {[phase |-> "given", a |-> a, b |-> b, c |-> c] :
                      a \in SchemaVersions, b \in SchemaVersions,
                      c \in SchemaVersions}

CallCmp ==
    /\ schema.phase = "given"
    /\ schema' = [phase |-> "compared",
                  a |-> schema.a, b |-> schema.b, c |-> schema.c,
                  ab |-> Cmp(schema.a, schema.b),
                  ba |-> Cmp(schema.b, schema.a),
                  bc |-> Cmp(schema.b, schema.c),
                  ac |-> Cmp(schema.a, schema.c)]
    /\ UNCHANGED <<scsiVars, ident, wire, bridge>>

SchemaNext == CallCmp

SchemaSpec == SchemaInit /\ [][SchemaNext]_vars

----------------------------------------------------------------------------
(* Vocabulary of the properties.                                           *)

LiveSlots == {i \in DOMAIN mounts : mounts[i] # Nil}
LiveMounts == {mounts[i] : i \in LiveSlots}

(* Equality of configs as the specification has it: field by field, with  *)
(* the options compared element by element after sorting.                  *)
ConfigEqual(c1, c2) ==
    /\ c1.partition = c2.partition
    /\ c1.readOnly = c2.readOnly
    /\ c1.encrypted = c2.encrypted
    /\ c1.blockDev = c2.blockDev
    /\ SortAsc(c1.options.elems) = SortAsc(c2.options.elems)
    /\ c1.ensureFilesystem = c2.ensureFilesystem
    /\ c1.filesystem = c2.filesystem

(* Key equality of a call (controller, lun, c) and an entry e.             *)
SameKey(controller, lun, c, e) ==
    /\ controller = e.controller
    /\ lun = e.lun
    /\ ConfigEqual(c, e.config)

(* The lowest index whose slot is free, else the index past the end.       *)
LowestFree(ms) ==
    IF \E i \in DOMAIN ms : ms[i] = Nil
    THEN (CHOOSE i \in DOMAIN ms :
            ms[i] = Nil /\ \A j \in DOMAIN ms : ms[j] = Nil => i <= j) - 1
    ELSE Len(ms)

(* The uint held as r has the value n.                                     *)
UintIs(r, n) == ~UintWrapped(r) /\ r = n

(* In this step a call came to be at pc with the *mount m: a call that     *)
(* started, or one that moved on.                                          *)
CameTo(pc, m) ==
    CopiesIn(Call(pc, m, NoErr), calls') > CopiesIn(Call(pc, m, NoErr), calls)

(* In this step a mount call went on to invoke mm.mounter.mount.           *)
CalledMounter == \E m \in Pointers : CameTo("mounting", m)

----------------------------------------------------------------------------
(* C1: a mount call that is key-equal to a live entry does not invoke      *)
(* mm.mounter.mount, so that mm.mounter.mount is invoked at most once for  *)
(* a key while its entry is live; a caller that waited for the readiness of*)
(* the entry it was put on returns what the pioneer returned: the entry's  *)
(* path, or the pioneer's error.                                           *)
C1_MountedOncePerLiveKey ==
    [][ /\ \A a \in MountInputs :
              ( /\ \E o \in LiveMounts :
                      SameKey(a.controller, a.lun, a.c, heap[o])
                /\ MountCall(a.controller, a.lun, a.path, a.c) )
              => ~CalledMounter
        /\ \A m \in Pointers :
              AwaitReady(m) => returned'.ret = hist[m].pioneerRet
      ]_vars

(* C2: a mount call that was put on an entry and whose context is         *)
(* cancelled while it waits returns the cancellation error, leaves every   *)
(* other call where it is, and leaves the refCount of the entry one lower  *)
(* than it found it, that is, as it was before the call.                   *)
C2_CancelRollsBackRefCount ==
    [][ \A m \in Pointers :
          AwaitCancel(m)
          => /\ returned' = Return(882, Ret("", ErrCanceled))
             /\ calls' = calls (-) One(Call("await", m, NoErr))
             /\ heap'[m] # Garbage =>
                   heap'[m].refCount = UintDec(heap[m].refCount)
      ]_vars

(* C3: outside the critical section of unmount, the refCount of a live    *)
(* entry is the number of mount calls put on it less the number of unmount *)
(* calls that named its path; an unmount call invokes mm.mounter.unmount   *)
(* when it takes that number to zero and at no other time.  An entry that  *)
(* an unmount call naming another path has acted on is left out.           *)
C3_RefCountIsMountsLessUnmounts ==
    [][ /\ ~mutex' =>
              \A i \in DOMAIN mounts' :
                  (mounts'[i] # Nil /\ hist'[mounts'[i]].stray = 0)
                  => UintIs(heap'[mounts'[i]].refCount, hist'[mounts'[i]].net)
        /\ \A path \in UnmountPaths :
              (UnmountCall(path) /\ returned'.ret.err # Panic)
              => LET mount == UnmountFind(mounts, heap, 0, path) IN
                 hist'[mount].stray = 0
                 => (CameTo("unmounting", mount) <=> hist'[mount].net = 0)
      ]_vars

(* C4: no two live entries have the same path.                             *)
C4_LivePathsDistinct ==
    \A i, j \in LiveSlots :
        i # j => heap[mounts[i]].path # heap[mounts[j]].path

(* C5: outside the critical section of unmount, every entry in the table   *)
(* has a refCount of at least 1.                                           *)
C5_LiveRefCountPositive ==
    ~mutex =>
        \A o \in LiveMounts :
            UintGtZero(heap[o].refCount)

(* C6: when mm.mounter.unmount fails, unmount returns the error and the    *)
(* entry is no longer in the table.                                        *)
C6_FailedUnmountRemovesEntry ==
    [][ \A m \in Pointers :
          MounterUnmountReturn(m, FALSE)
          => /\ returned'.ret.err = ErrUnmount
             /\ \A i \in DOMAIN mounts' : mounts'[i] # m
      ]_vars

(* The call (controller, lun, path, c) names a path, and a live entry with *)
(* another key has that path.                                              *)
PathTaken(controller, lun, path, c) ==
    /\ path # ""
    /\ \E o \in LiveMounts :
          heap[o].path = path /\ ~SameKey(controller, lun, c, heap[o])

(* The same, and no live entry in an earlier slot is key-equal to the call.*)
PathTakenFirst(controller, lun, path, c) ==
    /\ path # ""
    /\ \E i \in LiveSlots :
          /\ heap[mounts[i]].path = path
          /\ ~SameKey(controller, lun, c, heap[mounts[i]])
          /\ \A j \in LiveSlots :
                j < i => ~SameKey(controller, lun, c, heap[mounts[j]])

(* The call of this step was refused at line 877, without a call of        *)
(* mm.mounter.mount and without a change to the table or its entries.      *)
Refused ==
    /\ returned' = Return(877, Ret("", ErrConflict))
    /\ calls' = calls
    /\ mounts' = mounts
    /\ heap' = heap

C8_FailedEntryUntracked ==
    \A o \in DOMAIN heap :
        (heap[o] # Garbage /\ heap[o].waitErr # NoErr) => o \notin LiveMounts

(* A waiter has just returned the error of a failed mount.                 *)
C8_Witness == returned = Return(885, Ret("", ErrMount))

(* C9: no two live entries are key-equal.                                  *)
C9_LiveKeysDistinct ==
    \A i, j \in LiveSlots :
        i # j => ~SameKey(heap[mounts[i]].controller, heap[mounts[i]].lun,
                          heap[mounts[i]].config, heap[mounts[j]])

(* C10: a new entry takes the lowest free index of the table, or the index *)
(* past the end when no slot is free; when the call gave no path, the path *)
(* of the entry is mountFmt applied to that index; index and path of an    *)
(* entry never change, and the path is what the call returns when          *)
(* mm.mounter.mount succeeds.                                              *)
C10_LowestFreeIndex ==
    [][ /\ \A m \in Pointers :
              (ncalls' # ncalls /\ CameTo("mounting", m))
              => \A a \in MountInputs :
                    MountCall(a.controller, a.lun, a.path, a.c)
                    => /\ heap'[m].index = LowestFree(mounts)
                       /\ mounts'[LowestFree(mounts) + 1] = m
                       /\ a.path = "" =>
                             heap'[m].path = Sprintf(LowestFree(mounts))
        /\ \A o \in DOMAIN heap :
              (heap[o] # Garbage /\ heap'[o] # Garbage)
              => /\ heap'[o].index = heap[o].index
                 /\ heap'[o].path = heap[o].path
        /\ \A m \in Pointers :
              MountSucceeds(m) => returned'.ret = Ret(heap[m].path, NoErr)
      ]_vars

(* The entry allocated last has a generated path and sits below the end   *)
(* of the table, in a slot that an earlier entry had; its pioneer is in    *)
(* mm.mounter.mount.                                                       *)
C10_Witness ==
    /\ heap # <<>>
    /\ BagIn(Call("mounting", Len(heap), NoErr), calls)
    /\ heap[Len(heap)].index + 1 < Len(mounts)
    /\ heap[Len(heap)].path = Sprintf(heap[Len(heap)].index)
    /\ heap[Len(heap)].path # GivenPath

(* C11: a mount call on the controller and lun of a live entry is put on   *)
(* that entry (deduplicated) if and only if its config agrees with the     *)
(* entry's on every field other than options and the two option lists are  *)
(* equal as sequences after sorting; the order of the caller's options     *)
(* plays no part.                                                          *)
C11_DedupIffSortedOptionsEqual ==
    [][ \A a \in MountInputs :
          MountCall(a.controller, a.lun, a.path, a.c)
          => \A o \in LiveMounts :
                (a.controller = heap[o].controller /\ a.lun = heap[o].lun)
                => (CameTo("await", o) <=> ConfigEqual(a.c, heap[o].config))
      ]_vars

(* The refCount of the mount object o changes in this step.                *)
RefCountChanges(o) ==
    /\ heap[o] # Garbage
    /\ heap'[o] # Garbage
    /\ heap'[o].refCount # heap[o].refCount

(* The calls that hold mm.m across steps: those inside mm.mounter.unmount. *)
Unmounting == {cr \in InProgress : cr.pc = "unmounting"}

(* A pioneer is in mm.mounter.mount for the entry m, or a waiter awaits    *)
(* its readiness.                                                          *)
InFlight(m) ==
    \/ BagIn(Call("mounting", m, NoErr), calls)
    \/ BagIn(Call("await", m, NoErr), calls)

(* C12: mm.m is held across a step only by one unmount call, never by a    *)
(* pioneer in mm.mounter.mount nor by a waiter; while it is held no call   *)
(* starts (none reads the table) and nothing but the holder's own return   *)
(* writes a slot of the table or a refCount; a pioneer in mm.mounter.mount *)
(* can finish whenever mm.m is free; and while an entry's mount is in      *)
(* flight and mm.m is free, every mount call on another key and every      *)
(* unmount call on another path can start (in a process that has not       *)
(* panicked).                                                              *)
C12_TableUnderMutex ==
    /\ [](mutex <=> (Cardinality(Unmounting) = 1))
    /\ [](\A cr \in Unmounting : CopiesIn(cr, calls) = 1)
    /\ [][ (mutex /\ ~\E m \in Pointers, ok \in BOOLEAN :
                        MounterUnmountReturn(m, ok))
           => /\ mounts' = mounts
              /\ ncalls' = ncalls
              /\ \A o \in DOMAIN heap : ~RefCountChanges(o)
         ]_vars
    /\ []( (~mutex /\ ~Crashed)
           => \A m \in Pointers :
                 BagIn(Call("mounting", m, NoErr), calls)
                 => ENABLED MountSucceeds(m) /\ ENABLED MountFails(m) )
    /\ []( (~mutex /\ CanStart)
           => \A m \in Pointers :
                 InFlight(m)
                 => /\ \A a \in MountInputs :
                          ~SameKey(a.controller, a.lun, a.c, heap[m])
                          => ENABLED MountCall(a.controller, a.lun,
                                               a.path, a.c)
                    /\ \A path \in UnmountPaths :
                          path # heap[m].path => ENABLED UnmountCall(path) )

(* A mount call has run to completion while the pioneer of another entry   *)
(* is still in mm.mounter.mount.                                           *)
C12_Witness ==
    /\ returned.line = 905
    /\ \E m \in Pointers : BagIn(Call("mounting", m, NoErr), calls)

(* C13: for every 32-bit identifier R, GetResponseIdentifier(R) has the    *)
(* type nibble (bits 31-28) of MtResponse, 0x2, and its lower 28 bits      *)
(* (category, message id, version) are those of R.                         *)
C13_ResponseKeepsLower28Bits ==
    ident.phase \in {"response", "rendered"}
    => /\ ident.resp[1] = 2
       /\ And32(ident.resp, messageTypeMask) = MtResponse
       /\ \A i \in 2..8 : ident.resp[i] = ident.mi[i]

(* The response identifier has been taken of an identifier with all four   *)
(* type bits set.                                                          *)
C13_Witness ==
    /\ ident.phase = "response"
    /\ ident.mi[1] = 15
    /\ ident.resp = <<2, 0, 1, 0, 0, 10, 0, 1>>

(* The thirteen requests of the registry, and the response identifier      *)
(* constants that lines 111-139 declare.                                   *)
Registry ==
    {
      [request |-> ComputeSystemCreateV1, name |-> "Create"],
      [request |-> ComputeSystemStartV1, name |-> "Start"],
      [request |-> ComputeSystemShutdownGracefulV1, name |-> "ShutdownGraceful"],
      [request |-> ComputeSystemShutdownForcedV1, name |-> "ShutdownForced"],
      [request |-> ComputeSystemExecuteProcessV1, name |-> "ExecuteProcess"],
      [request |-> ComputeSystemWaitForProcessV1, name |-> "WaitForProcess"],
      [request |-> ComputeSystemSignalProcessV1, name |-> "SignalProcess"],
      [request |-> ComputeSystemResizeConsoleV1, name |-> "ResizeConsole"],
      [request |-> ComputeSystemGetPropertiesV1, name |-> "GetProperties"],
      [request |-> ComputeSystemModifySettingsV1, name |-> "ModifySettings"],
      [request |-> ComputeSystemNegotiateProtocolV1, name |-> "NegotiateProtocol"],
      [request |-> ComputeSystemDumpStacksV1, name |-> "DumpStacks"],
      [request |-> ComputeSystemDeleteContainerStateV1, name |-> "DeleteContainerState"]
    }
ResponseConstants ==
    {
      [value |-> ComputeSystemResponseCreateV1,
       name |-> "ComputeSystemResponseCreateV1"],
      [value |-> ComputeSystemResponseStartV1,
       name |-> "ComputeSystemResponseStartV1"],
      [value |-> ComputeSystemResponseShutdownGracefulV1,
       name |-> "ComputeSystemResponseShutdownGracefulV1"],
      [value |-> ComputeSystemResponseShutdownForcedV1,
       name |-> "ComputeSystemResponseShutdownForcedV1"],
      [value |-> ComputeSystemResponseExecuteProcessV1,
       name |-> "ComputeSystemResponseExecuteProcessV1"],
      [value |-> ComputeSystemResponseWaitForProcessV1,
       name |-> "ComputeSystemResponseWaitForProcessV1"],
      [value |-> ComputeSystemResponseSignalProcessV1,
       name |-> "ComputeSystemResponseSignalProcessV1"],
      [value |-> ComputeSystemResponseResizeConsoleV1,
       name |-> "ComputeSystemResponseResizeConsoleV1"],
      [value |-> ComputeSystemResponseGetPropertiesV1,
       name |-> "ComputeSystemResponseGetPropertiesV1"],
      [value |-> ComputeSystemResponseModifySettingsV1,
       name |-> "ComputeSystemResponseModifySettingsV1"],
      [value |-> ComputeSystemResponseNegotiateProtocolV1,
       name |-> "ComputeSystemResponseNegotiateProtocolV1"],
      [value |-> ComputeSystemResponseDumpStacksV1,
       name |-> "ComputeSystemResponseDumpStacksV1"]
    }
ResponseName(name) == "ComputeSystemResponse" \o name \o "V1"

(* GetResponseIdentifier has given the declared constant named for the     *)
(* request rq, and String has rendered it by that name.                    *)
GaveDeclaredResponse(rq) ==
    /\ \E c \in ResponseConstants :
          c.name = ResponseName(rq.name) /\ c.value = ident.resp
    /\ ident.name = ResponseName(rq.name)

(* C14, as stated: for each of the thirteen requests of the registry,      *)
(* GetResponseIdentifier returns the response identifier constant declared *)
(* for that request, and String renders it by its name.                    *)
C14_RegistryResponsesDeclared ==
    \A rq \in Registry :
        (ident.phase = "rendered" /\ ident.mi = rq.request)
        => GaveDeclaredResponse(rq)

(* C14, amended: that holds for the twelve requests other than             *)
(* DeleteContainerState; for ComputeSystemDeleteContainerStateV1 the       *)
(* result is 0x20100d01, for which no constant is declared and which       *)
(* String renders in decimal, "537922817".                                 *)
C14_RegistryResponsesDeclaredButDelete ==
    \A rq \in Registry :
        (ident.phase = "rendered" /\ ident.mi = rq.request)
        => IF rq.request # ComputeSystemDeleteContainerStateV1
           THEN GaveDeclaredResponse(rq)
           ELSE /\ ident.resp = <<2, 0, 1, 0, 0, 13, 0, 1>>
                /\ \A c \in ResponseConstants : c.value # ident.resp
                /\ ident.name = "537922817"

(* The response of ComputeSystemModifySettingsV1 has been rendered by the  *)
(* name of its constant.                                                   *)
C14_Witness ==
    /\ ident.phase = "rendered"
    /\ ident.mi = ComputeSystemModifySettingsV1
    /\ ident.resp = ComputeSystemResponseModifySettingsV1
    /\ ident.name = "ComputeSystemResponseModifySettingsV1"

(* The payload of the decoded message parses as far as its Request         *)
(* (lines 517-529), and the fields of that Request.                        *)
ParsesToRequest(b) ==
    /\ UnmarshalEnvelope(b).ok
    /\ UnmarshalRequest(UnmarshalEnvelope(b).raw).ok
PayloadRequest(b) == b.f.Request.f

(* The decode has yielded a decoded Request.                               *)
YieldsRequest(result) ==
    /\ result.msg # NilMessage
    /\ result.msg.Request.kind = "request"

(* C15: the decoded RequestType is Add whenever the payload's RequestType  *)
(* is absent (not there, or null) or empty, and otherwise is the payload's *)
(* RequestType exactly.                                                    *)
C15_RequestTypeDefaultsToAdd ==
    (wire.phase = "decoded" /\ YieldsRequest(wire.result))
    => LET q == PayloadRequest(wire.b).RequestType IN
       wire.result.msg.Request.RequestType =
           IF q.j \in {"absent", "null"} \/ q = JString("")
           THEN RtAdd
           ELSE q.s

(* A host's payload without RequestType has been decoded.                  *)
C15_Witness ==
    /\ wire.phase = "decoded"
    /\ wire.msg = NoMessage
    /\ YieldsRequest(wire.result)
    /\ PayloadRequest(wire.b).RequestType = Absent
    /\ wire.result.msg.Request.RequestType = RtAdd

(* The record that each of the ten recognised resource types selects.      *)
SelectedRecords ==
    {
      <<"SCSIDevice", "guestresource.SCSIDevice">>,
      <<"MappedVirtualDisk", "guestresource.LCOWMappedVirtualDisk">>,
      <<"MappedDirectory", "guestresource.LCOWMappedDirectory">>,
      <<"VPMemDevice", "guestresource.LCOWMappedVPMemDevice">>,
      <<"CombinedLayers", "guestresource.LCOWCombinedLayers">>,
      <<"Network", "guestresource.LCOWNetworkAdapter">>,
      <<"VPCIDevice", "guestresource.LCOWMappedVPCIDevice">>,
      <<"ContainerConstraints", "guestresource.LCOWContainerConstraints">>,
      <<"SecurityPolicy", "guestresource.LCOWConfidentialOptions">>,
      <<"PolicyFragment", "guestresource.LCOWSecurityPolicyFragment">>
    }

(* C16: when the payload parses as far as its Request, then for each of    *)
(* the ten recognised resource types the decode yields Settings as the     *)
(* record that the ResourceType selects (it succeeds whenever Settings is  *)
(* a JSON object, and fails on nothing but Settings), and for every other  *)
(* ResourceType it returns the invalid-resource-type error and no decoded  *)
(* Request; a decoded Request never comes with an error.                   *)
C16_SettingsDecodedByResourceType ==
    wire.phase = "decoded"
    => /\ YieldsRequest(wire.result) => wire.result.err = NoErr
       /\ ParsesToRequest(wire.b)
          => LET rq == UnmarshalRequest(UnmarshalEnvelope(wire.b).raw) IN
             IF rq.ResourceType \in ResourceTypes
             THEN /\ rq.rawSettings.j = "object" => wire.result.err = NoErr
                  /\ wire.result.err \in {NoErr, ErrSettings}
                  /\ wire.result.err = NoErr
                     => /\ YieldsRequest(wire.result)
                        /\ <<rq.ResourceType,
                             wire.result.msg.Request.Settings.type>>
                               \in SelectedRecords
                        /\ rq.rawSettings.type
                              = wire.result.msg.Request.Settings.type
                           => wire.result.msg.Request.Settings.val
                                 = rq.rawSettings.val
             ELSE /\ wire.result.err = ErrInvalidResourceType
                  /\ ~YieldsRequest(wire.result)

(* A payload for a mapped directory has been decoded into the record of    *)
(* mapped directories.                                                     *)
C16_Witness ==
    /\ wire.phase = "decoded"
    /\ wire.msg = NoMessage
    /\ YieldsRequest(wire.result)
    /\ PayloadRequest(wire.b).ResourceType
          = JString("MappedDirectory")
    /\ wire.result.msg.Request.Settings
          = [nil |-> FALSE, type |-> "guestresource.LCOWMappedDirectory", val |-> SomeValue]

(* C17, as stated: for every message whose ResourceType is recognised,     *)
(* decoding its encoding yields a message equal to it.                     *)
C17_RoundTrip ==
    ( /\ wire.phase = "decoded"
      /\ wire.msg # NoMessage
      /\ wire.msg.Request.ResourceType \in ResourceTypes )
    => /\ wire.result.err = NoErr
       /\ wire.result.msg = wire.msg

(* The Settings of the message are a record of the type that its           *)
(* ResourceType selects.                                                   *)
SettingsMatch(msg) ==
    /\ msg.Request.Settings # NilSettings
    /\ <<msg.Request.ResourceType, msg.Request.Settings.type>>
          \in SelectedRecords

(* C17, amended: for every message whose ResourceType is recognised, whose *)
(* Settings are a record of the type that the ResourceType selects and     *)
(* whose RequestType is not empty, decoding its encoding yields a message  *)
(* equal to it; with an empty RequestType it yields that message with      *)
(* RequestType Add.                                                        *)
C17_RoundTripOfCompleteMessages ==
    ( /\ wire.phase = "decoded"
      /\ wire.msg # NoMessage
      /\ wire.msg.Request.ResourceType \in ResourceTypes
      /\ SettingsMatch(wire.msg) )
    => /\ wire.result.err = NoErr
       /\ wire.result.msg =
             IF wire.msg.Request.RequestType = ""
             THEN [wire.msg EXCEPT !.Request.RequestType = RtAdd]
             ELSE wire.msg

(* A message that asks to remove a SCSI device, with a span context, has   *)
(* come back from its encoding.                                            *)
C17_Witness ==
    /\ wire.phase = "decoded"
    /\ wire.msg # NoMessage
    /\ wire.msg.Request.ResourceType = "SCSIDevice"
    /\ wire.msg.Request.RequestType = RtRemove
    /\ SettingsMatch(wire.msg)
    /\ wire.msg.OpenCensusSpanContext # NilSpan
    /\ wire.result.msg = wire.msg

(* The frames written so far that are responses carrying a sequence id,    *)
(* and their number.                                                       *)
ResponsesTo(seq) ==
    {f \in BagToSet(bridge.out) : f.type = "response" /\ f.ID = seq}
NumResponsesTo(seq) ==
    BagCardinality([f \in ResponsesTo(seq) |-> CopiesIn(f, bridge.out)])

(* No notification was written under a sequence id that a request read    *)
(* before it had used: the requests of a connection are numbered in the    *)
(* order they are read.                                                    *)
NotificationsAreFresh ==
    \A f \in BagToSet(bridge.out) :
        f.type = "notification"
        => f.ID \notin {rq.seq : rq \in bridge.received} \cap 1..f.after

C19_UninitAcceptsOnlyNegotiate ==
    bridge # Unused
    => /\ \A rq \in bridge.received :
             /\ ( /\ rq.at = "Uninit"
                  /\ rq.msg.id # ComputeSystemNegotiateProtocolV1 )
                => /\ rq.verdict = "ProtocolViolation"
                   /\ bridge.state = "Closed"
                   /\ rq.seq \notin bridge.inflight
                   /\ \A f \in ResponsesTo(rq.seq) :
                         f.Result = "ProtocolViolation"
                   /\ NumResponsesTo(rq.seq) = 1
             /\ rq.verdict = "Handler"
                => /\ rq.at # "Uninit"
                   /\ bridge.version = PvV4
       /\ bridge.state = "Uninit"
          => /\ bridge.version = PvInvalid
             /\ bridge.inflight = {}

(* A Create was read after a NegotiateProtocol had failed, still in Uninit. *)
C19_Witness ==
    /\ bridge # Unused
    /\ bridge.state = "Closed"
    /\ \E rq1, rq2 \in bridge.received :
          /\ rq1.seq < rq2.seq
          /\ rq1.msg.id = ComputeSystemNegotiateProtocolV1
          /\ rq2.at = "Uninit"
          /\ rq2.msg.id = ComputeSystemCreateV1

(* The WaitForProcess requests that were handed to a handler.              *)
Waits ==
    {rq \in bridge.received :
        /\ rq.msg.id = ComputeSystemWaitForProcessV1
        /\ rq.verdict = "Handler"}

(* While the response to a wait is withheld, the read loop reads and       *)
(* dispatches whatever request comes next.                                 *)
ReadLoopNotBlocked ==
    \A rq \in Waits :
        ( /\ rq.seq \in bridge.inflight
          /\ bridge.state = "Active"
          /\ FramesLeft )
        => \A msg \in HostRequests : ENABLED ReadFrame(msg)

C21_NegotiatesHighestSupported ==
    /\ [](bridge # Unused
          => \A rq \in bridge.received :
                rq.verdict = "Negotiate"
                => LET overlap == {PvV4} \cap
                          rq.msg.MinimumVersion..rq.msg.MaximumVersion
                   IN /\ NumResponsesTo(rq.seq) = 1
                      /\ \A f \in ResponsesTo(rq.seq) :
                            IF overlap = {}
                            THEN f.Result = "ProtocolNotSupported"
                            ELSE /\ f.Result = "Success"
                                 /\ f.Version \in overlap
                                 /\ \A v \in overlap : v <= f.Version
                                 /\ bridge.version = f.Version)
    /\ [][(bridge # Unused /\ bridge.version # PvInvalid)
          => bridge'.version = bridge.version]_vars

(* The range [3, 5] was answered with version 4, and a later               *)
(* NegotiateProtocol with the range [5, 6] was refused and left the        *)
(* version as it was.                                                      *)
C21_Witness ==
    /\ bridge # Unused
    /\ bridge.version = PvV4
    /\ \E rq1, rq2 \in bridge.received :
          /\ rq1.seq < rq2.seq
          /\ rq1.verdict = "Negotiate"
          /\ rq1.msg.MinimumVersion = 3 /\ rq1.msg.MaximumVersion = 5
          /\ \E f \in ResponsesTo(rq1.seq) : f.Version = 4
          /\ rq2.verdict = "Negotiate"
          /\ rq2.msg.MinimumVersion = 5
          /\ \E f \in ResponsesTo(rq2.seq) : f.Result = "ProtocolNotSupported"

(* The message id of an identifier: its bits 19-8, shifted down by         *)
(* messageIDShift.                                                         *)
MessageIDOf(mi) ==
    LET id == And32(mi, messageIDMask) IN 256 * id[4] + 16 * id[5] + id[6]

(* C22: every request identifier constant has the type Request, the        *)
(* category ComputeSystem and the version 0x01; the message ids of the     *)
(* thirteen request constants are exactly 0x01 through 0x0D, no two        *)
(* requests sharing one; the notification identifier is 0x30100101.        *)
C22_RequestIdentifiersDecompose ==
    /\ (ident # Unused /\ ident.mi \in RequestIdentifiers)
       => /\ And32(ident.mi, messageTypeMask) = MtRequest
          /\ ident.mi[1] = 1
          /\ And32(ident.mi, messageCategoryMask) = McComputeSystem
          /\ <<ident.mi[2], ident.mi[3]>> = <<0, 1>>
          /\ And32(ident.mi, messageVersionMask) = <<0, 0, 0, 0, 0, 0, 0, 1>>
          /\ MessageIDOf(ident.mi) \in 1..13
    /\ {MessageIDOf(mi) : mi \in RequestIdentifiers} = 1..13
    /\ Cardinality(RequestIdentifiers) = 13
    /\ ComputeSystemNotificationV1 = <<3, 0, 1, 0, 0, 1, 0, 1>>

(* The caller has taken the response identifier of the request with the    *)
(* highest message id, 0x0D.                                               *)
C22_Witness ==
    /\ ident # Unused
    /\ ident.phase = "response"
    /\ ident.mi = ComputeSystemDeleteContainerStateV1
    /\ MessageIDOf(ident.mi) = 13

----------------------------------------------------------------------------
(* C23: a mount call that is key-equal to a live entry is put on such an   *)
(* entry (deduplicated) and is never refused with the path-conflict error, *)
(* whichever live entries have the path it names and in whatever order the *)
(* entries are in the table.                                               *)
C23_KeyEqualAlwaysJoins ==
    [][ \A a \in MountInputs :
          ( /\ \E o \in LiveMounts :
                  SameKey(a.controller, a.lun, a.c, heap[o])
            /\ MountCall(a.controller, a.lun, a.path, a.c) )
          => /\ returned'.ret.err # ErrConflict
             /\ \E o \in LiveMounts :
                   /\ SameKey(a.controller, a.lun, a.c, heap[o])
                   /\ CameTo("await", o)
      ]_vars

(* C24: an unmount call that names a path no live entry has (the table may *)
(* be empty, or end in a freed slot) changes no refCount, takes no entry   *)
(* out of the table and does not invoke mm.mounter.unmount.                *)
C24_StrayUnmountTouchesNothing ==
    [][ \A path \in UnmountPaths :
          ( /\ \A o \in LiveMounts : heap[o].path # path
            /\ UnmountCall(path) )
          => /\ \A o \in DOMAIN heap : ~RefCountChanges(o)
             /\ mounts' = mounts
             /\ \A m \in Pointers : ~CameTo("unmounting", m)
      ]_vars

(* C25: the cleanup of a pioneer whose mm.mounter.mount failed frees only  *)
(* the slot that still has the pioneer's own entry: a slot that has       *)
(* another live entry, put there since, is left as it is.                  *)
C25_CleanupFreesOwnSlotOnly ==
    [][ \A m \in Pointers :
          MountFails(m)
          => \A i \in LiveSlots :
                mounts[i] # m => mounts'[i] = mounts[i]
      ]_vars

(* C26: no call is in mm.mounter.unmount for an entry while the pioneer of *)
(* that entry is still in mm.mounter.mount.                                *)
C26_NoUnmountUnderRunningMount ==
    \A m \in Pointers :
        ~( /\ BagIn(Call("mounting", m, NoErr), calls)
           /\ BagIn(Call("unmounting", m, NoErr), calls) )

(* C27: the refCount of an entry, a uint, is never taken below zero: it    *)
(* never has the value that a decrement at zero leaves, 2^64 - 1.          *)
C27_RefCountNeverWraps ==
    \A o \in DOMAIN heap :
        heap[o] # Garbage => ~UintWrapped(heap[o].refCount)

(* mountManager with the scheduling the program relies on: a caller whose  *)
(* next step can be taken takes it.  A waiter whose channel is closed      *)
(* leaves the select, the deferred function of a pioneer runs to its end,  *)
(* and mm.mounter.unmount returns.  The arrival of calls, the cancellation *)
(* of a context and the return of mm.mounter.mount are left to the         *)
(* environment.                                                            *)
FairSpec ==
    /\ Spec
    /\ \A m \in Pointers :
          /\ WF_vars(AwaitReady(m))
          /\ WF_vars(DeferClose(m))
          /\ WF_vars(\E ok \in BOOLEAN : MounterUnmountReturn(m, ok))

(* The pioneer of the entry m is back from mm.mounter.mount.               *)
PioneerBack(m) ==
    /\ m \in DOMAIN heap
    /\ heap[m] # Garbage
    /\ \/ heap[m].closed
       \/ BagIn(Call("close", m, ErrMount), calls)

(* C28: once the pioneer of an entry is back from mm.mounter.mount, with   *)
(* or without an error, there comes a time when no call waits for the      *)
(* readiness of that entry: every waiter has returned from mount.          *)
C28_WaitersReturn ==
    \A m \in Pointers :
        PioneerBack(m) ~> ~BagIn(Call("await", m, NoErr), calls)

(* The live entries o1 and o2 are on one controller and lun, with configs  *)
(* that differ.                                                            *)
SameDeviceOtherConfig(o1, o2) ==
    /\ heap[o1].controller = heap[o2].controller
    /\ heap[o1].lun = heap[o2].lun
    /\ ~ConfigEqual(heap[o1].config, heap[o2].config)

(* A mount call on the controller and lun of a live entry, with a config   *)
(* that differs from the entry's, is not put on that entry.                *)
C29_NotJoined ==
    [][ \A a \in MountInputs :
          MountCall(a.controller, a.lun, a.path, a.c)
          => \A o \in LiveMounts :
                ( /\ a.controller = heap[o].controller
                  /\ a.lun = heap[o].lun
                  /\ ~ConfigEqual(a.c, heap[o].config) )
                => ~CameTo("await", o)
      ]_vars

(* Two live entries on one controller and lun with differing configs are   *)
(* two mount objects with two indices and two paths.                       *)
C29_TrackedApart ==
    \A i, j \in LiveSlots :
        (i # j /\ SameDeviceOtherConfig(mounts[i], mounts[j]))
        => /\ mounts[i] # mounts[j]
           /\ heap[mounts[i]].index # heap[mounts[j]].index
           /\ heap[mounts[i]].path # heap[mounts[j]].path

(* An unmount call on the path of one of two such entries leaves the other *)
(* as it is: in the table, with its refCount, and not in                   *)
(* mm.mounter.unmount.                                                     *)
C29_UnmountedApart ==
    [][ \A path \in UnmountPaths :
          UnmountCall(path)
          => \A o1, o2 \in LiveMounts :
                ( /\ o1 # o2
                  /\ SameDeviceOtherConfig(o1, o2)
                  /\ heap[o1].path = path
                  /\ UnmountFind(mounts, heap, 0, path) = o1 )
                => /\ ~RefCountChanges(o2)
                   /\ ~CameTo("unmounting", o2)
                   /\ \E i \in DOMAIN mounts' : mounts'[i] = o2
      ]_vars

(* C29: two mounts of one controller and lun whose configs differ in some  *)
(* field are never deduplicated: they are two live entries with two        *)
(* indices and two paths, each with its own call of mm.mounter.mount and   *)
(* its own refCount, and the unmount of one leaves the other mounted.      *)
C29_DifferingConfigsMountedApart ==
    /\ C29_NotJoined
    /\ []C29_TrackedApart
    /\ C29_UnmountedApart

(* The string a JSON field leaves in a Go string: its value, or "" when    *)
(* the field is absent or null.                                            *)
StringIn(b, field) ==
    IF b.j = "object" /\ b.f[field].j = "string" THEN b.f[field].s ELSE ""

(* C30: when the envelope parses and the Request, the Settings or the      *)
(* ResourceType then fails, UnmarshalContainerModifySettings returns with  *)
(* the error a message that is not nil and has the ContainerID and the     *)
(* ActivityID of the envelope; the message is nil when, and only when, the *)
(* envelope itself does not parse.                                         *)
C30_FailureKeepsEnvelope ==
    wire.phase = "decoded"
    => IF UnmarshalEnvelope(wire.b).ok
       THEN /\ wire.result.msg # NilMessage
            /\ wire.result.err # ErrEnvelope
            /\ wire.result.err # NoErr
               => /\ wire.result.msg.ContainerID = StringIn(wire.b, "ContainerId")
                  /\ wire.result.msg.ActivityID = StringIn(wire.b, "ActivityId")
       ELSE /\ wire.result.msg = NilMessage
            /\ wire.result.err = ErrEnvelope

(* A payload whose envelope parses, with a container id and an activity id,*)
(* and whose settings do not decode has been decoded: the error has come   *)
(* with the message of the envelope.                                       *)
C30_Witness ==
    /\ wire.phase = "decoded"
    /\ wire.result.err = ErrSettings
    /\ wire.result.msg # NilMessage
    /\ wire.result.msg.ContainerID = "c1"
    /\ wire.result.msg.ActivityID = "a1"

(* C31: when UnmarshalContainerModifySettings returns no error, the        *)
(* RequestType of the decoded request is Add, Remove or Update: a payload  *)
(* with another RequestType is not accepted.                               *)
C31_RequestTypeIsKnown ==
    (wire.phase = "decoded" /\ wire.result.err = NoErr)
    => wire.result.msg.Request.RequestType \in {RtAdd, RtRemove, RtUpdate}

(* C32: a mount call that was given a path and succeeds returns that path. *)
(* A call returns the path of the entry it was put on, as pioneer or as    *)
(* waiter, so a call that was given a path is put only on an entry with    *)
(* that path, also when the entry is a key-equal one made by an earlier    *)
(* call.                                                                   *)
C32_ReturnsRequestedPath ==
    [][ /\ \A a \in MountInputs :
              (a.path # "" /\ MountCall(a.controller, a.lun, a.path, a.c))
              => \A m \in Pointers :
                    (CameTo("mounting", m) \/ CameTo("await", m))
                    => heap'[m].path = a.path
        /\ \A m \in Pointers :
              ( \/ MountSucceeds(m)
                \/ AwaitReady(m) /\ returned'.ret.err = NoErr )
              => returned'.ret.path = heap[m].path
      ]_vars

(* The live entry in slot i is after the step what it was before: in the   *)
(* same slot, with the same index, path, controller, lun, config and       *)
(* refCount.                                                               *)
EntryKept(i) ==
    /\ i \in DOMAIN mounts'
    /\ mounts'[i] = mounts[i]
    /\ heap'[mounts[i]] = heap[mounts[i]]

(* A mount call leaves the live entries of other keys as they are.         *)
C33_MountKeepsOthers ==
    [][ \A a \in MountInputs :
          MountCall(a.controller, a.lun, a.path, a.c)
          => \A i \in LiveSlots :
                ~SameKey(a.controller, a.lun, a.c, heap[mounts[i]])
                => EntryKept(i)
      ]_vars

(* The cleanup of a pioneer whose mount failed leaves the other live       *)
(* entries as they are.                                                    *)
C33_CleanupKeepsOthers ==
    [][ \A m \in Pointers :
          MountFails(m)
          => \A i \in LiveSlots : mounts[i] # m => EntryKept(i)
      ]_vars

(* An unmount call, up to its return, leaves the live entries of other     *)
(* paths as they are.                                                      *)
C33_UnmountKeepsOthers ==
    [][ /\ \A path \in UnmountPaths :
              UnmountCall(path)
              => \A i \in LiveSlots :
                    heap[mounts[i]].path # path => EntryKept(i)
        /\ \A m \in Pointers, ok \in BOOLEAN :
              MounterUnmountReturn(m, ok)
              => \A i \in LiveSlots : mounts[i] # m => EntryKept(i)
      ]_vars

(* The index and the path of an entry are those it was made with for as    *)
(* long as it is in the table.                                             *)
C33_IndexAndPathFixed ==
    [][ \A i \in LiveSlots :
          (i \in DOMAIN mounts' /\ mounts'[i] = mounts[i])
          => /\ heap'[mounts[i]].index = heap[mounts[i]].index
             /\ heap'[mounts[i]].path = heap[mounts[i]].path
             /\ heap[mounts[i]].index = i - 1
      ]_vars

(* C33: a mount call or an unmount call on one key leaves every other live *)
(* entry as it is, with its slot, index, path, controller, lun, config and *)
(* refCount; the index and the path of an entry never change between its   *)
(* creation and its removal.                                               *)
C33_OtherEntriesUnchanged ==
    /\ C33_MountKeepsOthers
    /\ C33_CleanupKeepsOthers
    /\ C33_UnmountKeepsOthers
    /\ C33_IndexAndPathFixed

(* The pioneer of the entry m has not yet returned.                        *)
PioneerAtWork(m) ==
    \/ BagIn(Call("mounting", m, NoErr), calls)
    \/ BagIn(Call("close", m, ErrMount), calls)

(* C34: the readiness of an entry is published once, by a step of the      *)
(* pioneer that made the entry and by no step of a waiter or of unmount;   *)
(* while the pioneer is at work it is not published, and an entry has one  *)
(* pioneer; what the waiters read after it, mount.waitErr, is then what    *)
(* the pioneer returned, nil or its error, and does not change again.      *)
C34_ReadinessPublishedOnce ==
    /\ [](\A m \in DOMAIN heap :
            heap[m] # Garbage
            => /\ PioneerAtWork(m) => ~heap[m].closed
               /\ CopiesIn(Call("mounting", m, NoErr), calls)
                     + CopiesIn(Call("close", m, ErrMount), calls) <= 1
               /\ heap[m].closed
                     => heap[m].waitErr = hist[m].pioneerRet.err)
    /\ [][ \A m \in DOMAIN heap :
             (heap[m] # Garbage /\ heap'[m] # Garbage)
             => /\ (~heap[m].closed /\ heap'[m].closed)
                      => (MountSucceeds(m) \/ DeferClose(m))
                /\ heap[m].closed
                      => /\ heap'[m].closed
                         /\ heap'[m].waitErr = heap[m].waitErr
         ]_vars

(* A waiter has read the outcome of a mount that succeeded, after the      *)
(* pioneer published it, and has returned the path.                        *)
C34_Witness ==
    /\ returned.line = 888
    /\ \E m \in DOMAIN heap :
          /\ heap[m] # Garbage
          /\ heap[m].closed
          /\ heap[m].waitErr = NoErr
          /\ hist[m].pioneerRet = Ret(heap[m].path, NoErr)
          /\ returned.ret = hist[m].pioneerRet

(* The lexicographic order on (Major, Minor).                              *)
LexLower(s, v) ==
    \/ s.Major < v.Major
    \/ s.Major = v.Major /\ s.Minor < v.Minor

(* C35: s.Cmp(v) is the lexicographic order on (Major, Minor): it is 0     *)
(* exactly when both fields are equal, -1 when s is lower and 1 when s is  *)
(* higher; a.Cmp(b) = -(b.Cmp(a)); and the order is transitive.            *)
C35_CmpIsLexicographic ==
    schema.phase = "compared"
    => /\ schema.ab \in {-1, 0, 1}
       /\ schema.ab = 0 <=> ( /\ schema.a.Major = schema.b.Major
                              /\ schema.a.Minor = schema.b.Minor )
       /\ schema.ab = -1 <=> LexLower(schema.a, schema.b)
       /\ schema.ab = 1 <=> LexLower(schema.b, schema.a)
       /\ schema.ab = -schema.ba
       /\ (schema.ab <= 0 /\ schema.bc <= 0) => schema.ac <= 0
       /\ (schema.ab = -1 /\ schema.bc <= 0) => schema.ac = -1
       /\ (schema.ab <= 0 /\ schema.bc = -1) => schema.ac = -1

(* Versions with the same Major have been compared: the first is lower     *)
(* than the second by its Minor alone, the second lower than the third by  *)
(* its Major, and the first has come out lower than the third.             *)
C35_Witness ==
    /\ schema.phase = "compared"
    /\ schema.a.Major = schema.b.Major
    /\ schema.a.Minor < schema.b.Minor
    /\ schema.b.Major < schema.c.Major
    /\ schema.b.Minor > schema.c.Minor
    /\ schema.ab = -1
    /\ schema.ba = 1
    /\ schema.ac = -1

============================================================================
